---- MODULE Spec2Model ----
(***************************************************************************)
(* Verification model of the Cyber-Security-Evaluator repository.          *)
(*                                                                         *)
(* Part J: the adaptive evaluation loop of SQLInjectionJudge               *)
(*         (scenarios/security/sql_injection_judge.py) with the planner    *)
(*         (adaptive_planner.py), the scoring engine (scoring_engine.py)   *)
(*         and the data model (models.py).                                 *)
(*         Specification Spec.                                             *)
(* Part M: construction of a models.TestResult through its validator.      *)
(*         Specification SpecModels.                                       *)
(* Part E: the target proxy PurpleAgentA2AProxy of CyberSecurityEvaluator  *)
(*         (green_agents/cybersecurity_evaluator.py).                      *)
(*         Specification SpecEval.                                         *)
(*                                                                         *)
(* Floating point: every F1 value is kept as an exact fraction <<n, d>>.   *)
(* For result sets of at most 8 tests the comparisons the code makes       *)
(* (f1 < weak_threshold, f1 >= 0.9, |f1' - f1| < stability_threshold) give *)
(* the same answer on IEEE doubles as on the exact fractions, and          *)
(* int(batch_size * focus_percentage) equals the exact floor.              *)
(***************************************************************************)
EXTENDS Integers, Sequences, FiniteSets, TLC

\* ------------------------------------------------------------------ bounds
\* Samples the dataset holds in each category.
SamplesPerCategory == 3

\* ---------------------------------------------------------------- constants
\* decide_next_phase: "if remaining_budget > 20" (budget needed for validation)
ValidationMinimum == 20

\* DetectionOutcome (models.py)
TRUE_POSITIVE == "true_positive"
TRUE_NEGATIVE == "true_negative"
FALSE_POSITIVE == "false_positive"
FALSE_NEGATIVE == "false_negative"
DetectionOutcome == {TRUE_POSITIVE, TRUE_NEGATIVE, FALSE_POSITIVE, FALSE_NEGATIVE}

\* TestPhase (models.py)
EXPLORATION == "exploration"
EXPLOITATION == "exploitation"
VALIDATION == "validation"
TestPhase == {EXPLORATION, EXPLOITATION, VALIDATION}

\* ------------------------------------------------------------------ dataset
\* DatasetManager after load_datasets: the categories, in index order, and the
\* samples of each.  Sample ids are unique; in each category every third
\* sample is secure code, the others are vulnerable.
all_categories == <<"blind_sqli", "classic_sqli">>

CategorySet == {all_categories[i] : i \in DOMAIN all_categories}

CategoryIndex(c) == CHOOSE i \in DOMAIN all_categories : all_categories[i] = c

SampleIds == 1 .. (Len(all_categories) * SamplesPerCategory)

SampleCategory(id) == all_categories[((id - 1) \div SamplesPerCategory) + 1]

SampleIsVulnerable(id) == (((id - 1) % SamplesPerCategory) + 1) % 3 # 0

\* DatasetManager.get_samples_by_category: the ids of the samples of a category
get_samples_by_category(c) == {id \in SampleIds : SampleCategory(id) = c}

\* -------------------------------------------------------------- arithmetic
Min(a, b) == IF a <= b THEN a ELSE b
Max(a, b) == IF a >= b THEN a ELSE b
Abs(a) == IF a >= 0 THEN a ELSE -a

\* A fraction <<n, d>>, d > 0.
Frac(n, d) == <<n, d>>
FracLt(a, b) == a[1] * b[2] < b[1] * a[2]
FracGe(a, b) == ~FracLt(a, b)
FracEq(a, b) == a[1] * b[2] = b[1] * a[2]
\* |b - a| as a fraction
FracAbsDiff(a, b) == Frac(Abs(b[1] * a[2] - a[1] * b[2]), a[2] * b[2])

RECURSIVE SetToSeq(_)
\* The elements of a finite set of integers in ascending order.
SetToSeq(S) ==
    IF S = {} THEN <<>>
    ELSE LET m == CHOOSE x \in S : \A y \in S : x <= y
         IN <<m>> \o SetToSeq(S \ {m})

RECURSIVE SumSeq(_)
SumSeq(s) == IF s = <<>> THEN 0 ELSE Head(s) + SumSeq(Tail(s))

\* ------------------------------------------------------ models.py TestResult
\* TestResult.determine_outcome (field validator, mode='before'): a value that
\* is a DetectionOutcome instance is returned unchanged; any other value is
\* replaced by the outcome derived from ground_truth and predicted.
determine_outcome(v, ground_truth, predicted) ==
    IF v \in DetectionOutcome THEN v
    ELSE IF ground_truth /\ predicted THEN TRUE_POSITIVE
    ELSE IF ~ground_truth /\ ~predicted THEN TRUE_NEGATIVE
    ELSE IF ~ground_truth /\ predicted THEN FALSE_POSITIVE
    ELSE FALSE_NEGATIVE

\* SQLInjectionJudge._determine_outcome
judge_determine_outcome(ground_truth, predicted) ==
    IF ground_truth /\ predicted THEN TRUE_POSITIVE
    ELSE IF ~ground_truth /\ ~predicted THEN TRUE_NEGATIVE
    ELSE IF ~ground_truth /\ predicted THEN FALSE_POSITIVE
    ELSE FALSE_NEGATIVE

\* The TestResult constructor: the fields as given, outcome through the
\* validator.  Of the fields, those the scoring and the planner read.
TestResult(id, ground_truth, predicted, outcome, category) ==
    [test_case_id |-> id,
     ground_truth |-> ground_truth,
     predicted |-> predicted,
     outcome |-> determine_outcome(outcome, ground_truth, predicted),
     category |-> category]

\* ---------------------------------------------------------- scoring_engine.py
\* The count of an outcome that leaves the first result out.
CountOutcomeButFirst(results, o) ==
    Cardinality({i \in DOMAIN results : i > 1 /\ results[i].outcome = o})

CountOutcome(results, o) ==
    Cardinality({i \in DOMAIN results : results[i].outcome = o})

\* The confusion matrix with the false negatives left uncounted.
build_confusion_matrix_no_fn(results) ==
    [true_positives |-> CountOutcome(results, TRUE_POSITIVE),
     true_negatives |-> CountOutcome(results, TRUE_NEGATIVE),
     false_positives |-> CountOutcome(results, FALSE_POSITIVE),
     false_negatives |-> 0]

\* ScoringEngine._build_confusion_matrix
build_confusion_matrix(results) ==
    [true_positives |-> CountOutcome(results, TRUE_POSITIVE),
     true_negatives |-> CountOutcome(results, TRUE_NEGATIVE),
     false_positives |-> CountOutcome(results, FALSE_POSITIVE),
     false_negatives |-> CountOutcome(results, FALSE_NEGATIVE)]

\* ConfusionMatrix.total
ConfusionTotal(cm) ==
    cm.true_positives + cm.true_negatives + cm.false_positives + cm.false_negatives

\* Precision taken as 1 when nothing was flagged.
calculate_precision_vacuous(cm) ==
    IF cm.true_positives + cm.false_positives = 0 THEN Frac(1, 1)
    ELSE Frac(cm.true_positives, cm.true_positives + cm.false_positives)

\* ScoringEngine._calculate_precision: TP / (TP + FP), 0.0 on a zero denominator
calculate_precision(cm) ==
    IF cm.true_positives + cm.false_positives = 0 THEN Frac(0, 1)
    ELSE Frac(cm.true_positives, cm.true_positives + cm.false_positives)

\* Specificity, TN / (TN + FP), in the place of recall.
calculate_recall_specificity(cm) ==
    IF cm.true_negatives + cm.false_positives = 0 THEN Frac(0, 1)
    ELSE Frac(cm.true_negatives, cm.true_negatives + cm.false_positives)

\* ScoringEngine._calculate_recall: TP / (TP + FN), 0.0 on a zero denominator
calculate_recall(cm) ==
    IF cm.true_positives + cm.false_negatives = 0 THEN Frac(0, 1)
    ELSE Frac(cm.true_positives, cm.true_positives + cm.false_negatives)

\* F1 reported as 0 whatever precision and recall are.
calculate_f1_zero(p, r) == Frac(0, 1)

\* ScoringEngine._calculate_f1: 2 * (p * r) / (p + r), 0.0 when p + r = 0
calculate_f1(p, r) ==
    IF p[1] * r[2] + r[1] * p[2] = 0 THEN Frac(0, 1)
    ELSE Frac(2 * p[1] * r[1], p[1] * r[2] + r[1] * p[2])

\* ScoringEngine._calculate_fpr: FP / (FP + TN), 0.0 on a zero denominator
calculate_fpr(cm) ==
    IF cm.false_positives + cm.true_negatives = 0 THEN Frac(0, 1)
    ELSE Frac(cm.false_positives, cm.false_positives + cm.true_negatives)

\* ScoringEngine._calculate_fnr: FN / (FN + TP), 0.0 on a zero denominator
calculate_fnr(cm) ==
    IF cm.false_negatives + cm.true_positives = 0 THEN Frac(0, 1)
    ELSE Frac(cm.false_negatives, cm.false_negatives + cm.true_positives)

\* ScoringEngine.calculate_metrics on a non-empty list (the empty list raises
\* ValueError, which the callers below model as the failure of the evaluation).
calculate_metrics(results) ==
    LET cm == build_confusion_matrix(results)
        p == calculate_precision(cm)
        r == calculate_recall(cm)
    IN [f1_score |-> calculate_f1(p, r),
        precision |-> p,
        recall |-> r,
        false_positive_rate |-> calculate_fpr(cm),
        false_negative_rate |-> calculate_fnr(cm),
        confusion_matrix |-> cm,
        total_samples |-> ConfusionTotal(cm)]

\* The results of one category, in order.
ResultsOfCategory(results, c) == SelectSeq(results, LAMBDA r : r.category = c)

\* ScoringEngine.calculate_category_metrics: one entry for each category that
\* has results, sorted by category name (all_categories is in that order).
calculate_category_metrics(results) ==
    LET present == SelectSeq(all_categories,
                             LAMBDA c : ResultsOfCategory(results, c) # <<>>)
    IN [i \in DOMAIN present |->
          [category |-> present[i],
           metrics |-> calculate_metrics(ResultsOfCategory(results, present[i])),
           sample_count |-> Len(ResultsOfCategory(results, present[i]))]]

\* ScoringEngine.get_weak_categories: the categories with F1 < threshold
get_weak_categories(category_metrics, threshold) ==
    LET weak == SelectSeq(category_metrics,
                          LAMBDA cm : FracLt(cm.metrics.f1_score, threshold))
    IN [i \in DOMAIN weak |-> weak[i].category]

\* ScoringEngine.get_strong_categories: the categories with F1 >= threshold
get_strong_categories(category_metrics, threshold) ==
    LET strong == SelectSeq(category_metrics,
                            LAMBDA cm : FracGe(cm.metrics.f1_score, threshold))
    IN [i \in DOMAIN strong |-> strong[i].category]

\* ScoringEngine.is_performance_stable: abs(f1_2 - f1_1) < threshold
is_performance_stable(metrics1, metrics2, threshold) ==
    FracLt(FracAbsDiff(metrics1.f1_score, metrics2.f1_score), threshold)


\* -------------------------------------------------------- adaptive_planner.py
\* AdaptiveConfig defaults (models.py): weak_threshold = 0.6,
\* focus_percentage = 0.6, stability_threshold = 0.05
weak_threshold == Frac(3, 5)
focus_percentage == Frac(3, 5)
stability_threshold == Frac(1, 20)
\* should_terminate_early: "performance.overall_f1 >= 0.9"
ExcellentF1 == Frac(9, 10)

\* previous_metrics = None / performance = None
None == [none |-> TRUE]

\* AdaptiveTestPlanner.analyze_performance
analyze_performance(results, previous_metrics) ==
    LET overall_metrics == calculate_metrics(results)
        category_metrics == calculate_category_metrics(results)
        trend ==
            IF previous_metrics = None THEN "stable"
            ELSE IF is_performance_stable(previous_metrics, overall_metrics,
                                          stability_threshold)
                 THEN "stable"
            ELSE IF FracLt(previous_metrics.f1_score, overall_metrics.f1_score)
                 THEN "improving"
            ELSE "declining"
    IN [overall_f1 |-> overall_metrics.f1_score,
        weak_categories |-> get_weak_categories(category_metrics, weak_threshold),
        strong_categories |-> get_strong_categories(category_metrics, weak_threshold),
        performance_trend |-> trend]

\* AutonomousDecision as appended by AdaptiveTestPlanner._log_decision
Decision(decision_type, phase) == [decision_type |-> decision_type, phase |-> phase]

\* decide_next_phase with the weak-category transition lost: the phase stays.
decide_next_phase_stays(current, round_number, perf, total_tests_executed, test_budget) ==
    current

\* decide_next_phase with the stability test lost: exploitation moves on to
\* validation as soon as the budget allows.
decide_next_phase_unstable(current, round_number, perf, total_tests_executed, test_budget) ==
    IF round_number = 1 THEN EXPLORATION
    ELSE IF current = EXPLORATION /\ perf.weak_categories # <<>> THEN EXPLOITATION
    ELSE IF current = EXPLOITATION
         THEN IF test_budget - total_tests_executed > ValidationMinimum
              THEN VALIDATION
              ELSE EXPLOITATION
    ELSE current

\* decide_next_phase leaving exploitation for exploration again.
decide_next_phase_returns(current, round_number, perf, total_tests_executed, test_budget) ==
    IF round_number = 1 THEN EXPLORATION
    ELSE IF current = EXPLORATION /\ perf.weak_categories # <<>> THEN EXPLOITATION
    ELSE IF current = EXPLOITATION THEN EXPLORATION
    ELSE current

\* AdaptiveTestPlanner.decide_next_phase: the phase it returns
decide_next_phase(current, round_number, perf, total_tests_executed, test_budget) ==
    IF round_number = 1 THEN EXPLORATION
    ELSE IF current = EXPLORATION /\ perf.weak_categories # <<>> THEN EXPLOITATION
    ELSE IF current = EXPLOITATION /\ perf.performance_trend = "stable"
         THEN IF test_budget - total_tests_executed > ValidationMinimum
              THEN VALIDATION
              ELSE EXPLOITATION
    ELSE current

\* TestPlan
TestPlan(phase, allocations, logged) ==
    [phase |-> phase,
     allocations |-> allocations,
     total_tests |-> SumSeq([i \in DOMAIN allocations |-> allocations[i].allocated_count]),
     logged |-> logged]

\* TestAllocation
TestAllocation(category, count) == [category |-> category, allocated_count |-> count]

\* AdaptiveTestPlanner._plan_exploration
plan_exploration(batch, categories, min_category_samples) ==
    IF Len(categories) = 0 THEN TestPlan(EXPLORATION, <<>>, <<>>)
    ELSE LET base_per_category == Max(min_category_samples, batch \div Len(categories))
         IN TestPlan(EXPLORATION,
                     [i \in DOMAIN categories |->
                        TestAllocation(categories[i], base_per_category)],
                     <<Decision("test_allocation", EXPLORATION)>>)

\* AdaptiveTestPlanner._plan_exploitation
plan_exploitation(batch, weak_categories, categories, min_category_samples) ==
    IF weak_categories = <<>>
    THEN plan_exploration(batch, categories, min_category_samples)
    ELSE LET focus_count == (batch * focus_percentage[1]) \div focus_percentage[2]
             remaining_count == batch - focus_count
             per_weak_category ==
                 Max(min_category_samples, focus_count \div Len(weak_categories))
             weak_set == {weak_categories[i] : i \in DOMAIN weak_categories}
             other_categories == SelectSeq(categories, LAMBDA c : c \notin weak_set)
             per_other_category ==
                 Max(1, remaining_count \div Max(1, Len(other_categories)))
         IN TestPlan(EXPLOITATION,
                     [i \in DOMAIN weak_categories |->
                        TestAllocation(weak_categories[i], per_weak_category)]
                     \o [i \in DOMAIN other_categories |->
                        TestAllocation(other_categories[i], per_other_category)],
                     <<Decision("test_allocation", EXPLOITATION)>>)

\* AdaptiveTestPlanner._plan_validation
plan_validation(batch, categories, min_category_samples) ==
    IF Len(categories) = 0 THEN TestPlan(VALIDATION, <<>>, <<>>)
    ELSE LET per_category == Max(min_category_samples, batch \div Len(categories))
         IN TestPlan(VALIDATION,
                     [i \in DOMAIN categories |->
                        TestAllocation(categories[i], per_category)],
                     <<Decision("test_allocation", VALIDATION)>>)

\* AdaptiveTestPlanner.decide_next_batch
decide_next_batch(phase, batch, perf, categories, min_category_samples) ==
    IF phase = EXPLORATION
    THEN plan_exploration(batch, categories, min_category_samples)
    ELSE IF phase = EXPLOITATION
    THEN plan_exploitation(batch, perf.weak_categories, categories,
                           min_category_samples)
    ELSE plan_validation(batch, categories, min_category_samples)

\* AdaptiveTestPlanner.should_terminate_early: [terminate, reason]
should_terminate_early(round_number, max_rounds, total_tests_executed, test_budget, perf, previous_performance) ==
    IF round_number >= max_rounds
    THEN [terminate |-> TRUE, reason |-> "max_rounds"]
    ELSE IF total_tests_executed >= test_budget
    THEN [terminate |-> TRUE, reason |-> "budget"]
    ELSE IF previous_performance # None
            /\ FracGe(perf.overall_f1, ExcellentF1)
            /\ perf.performance_trend = "stable"
            /\ perf.weak_categories = <<>>
    THEN [terminate |-> TRUE, reason |-> "excellent"]
    ELSE IF round_number >= 3
            /\ perf.weak_categories = <<>>
            /\ perf.performance_trend = "stable"
    THEN [terminate |-> TRUE, reason |-> "stable"]
    ELSE [terminate |-> FALSE, reason |-> "continue"]


\* ===================================================== Part J: the judge loop
\* The values of the request's config dictionary.  initial_exploration_size,
\* max_rounds and min_category_samples are taken valid (>= 1); test_budget is
\* any natural number, EvaluationConfig accepts it from 1 on.
TestBudgets == {0, 3, 27}
InitialExplorationSizes == {2}
MaxRoundsChoices == {1, 2, 5}
MinCategorySamples == {1, 2}

\* The request's timeout_seconds, "Timeout for entire evaluation", in seconds.
EvaluationTimeout == 2

\* The time one call to the purple agent takes, in seconds.
TestSeconds == 1

\* The request's "categories": absent (None, all categories) or a list.
CategoriesToTest == {None, [list |-> <<"blind_sqli">>]}

Configs ==
    [test_budget : TestBudgets,
     initial_exploration_size : InitialExplorationSizes,
     max_rounds : MaxRoundsChoices,
     min_category_samples : MinCategorySamples,
     timeout_seconds : {EvaluationTimeout},
     categories_to_test : CategoriesToTest]

\* What one call to the purple agent can end in: a parsed answer with
\* is_vulnerable true or false, or an exception (timeout, connection error,
\* raise_for_status on a non-2xx answer, a body that is not JSON).
CallOutcomes == {"vulnerable", "not_vulnerable", "timeout", "http_error"}

VARIABLES
    cfg,               \* req.config, from ParseConfig on the EvaluationConfig
    pc,                \* position in _run_adaptive_evaluation / run_eval
    round_num,         \* the loop variable of "for round_num in range(1, max_rounds + 1)"
    all_results,       \* list[TestResult]
    tested_ids,        \* set[str]
    round_history,     \* list[RoundResults]
    previous_metrics,  \* EvaluationMetrics of the previous round, or None
    current_phase,     \* TestPhase
    batch_size,        \* batch size of the current round
    performance,       \* PerformanceAnalysis of the current round, or None
    test_plan,         \* TestPlan of the current round, or None
    test_samples,      \* the samples chosen for the current round (ids)
    round_results,     \* the results _execute_tests has built so far
    decisions,         \* AdaptiveTestPlanner.decisions
    response,          \* what run_eval ends with (an EvalResponse or a
                       \* propagated exception), None while it runs
    task_status,       \* the status of the latest updater.update
    raised             \* the exception raised inside run_eval's try, or None

varsJ == <<cfg, pc, round_num, all_results, tested_ids, round_history,
           previous_metrics, current_phase, batch_size, performance, test_plan,
           test_samples, round_results, decisions, response, task_status,
           raised>>

\* Part E: one evaluation of CyberSecurityEvaluator through PurpleAgentA2AProxy
VARIABLES
    e_pc,              \* position in the evaluation
    e_attacks,         \* the attacks of the evaluation, in the order they are run
    e_next,            \* index of the next attack to run
    e_results,         \* the TestResults PurpleAgentA2AProxy.detect has returned
    e_last_call,       \* the latest call: the attack, what came back, what detect did
    e_req,             \* the request: its participants and its config.scenario
    e_work,            \* the evaluation work started so far, in order
    e_error,           \* the error surfaced for the request, or None
    e_response,        \* the EvalResponse run_eval returns, or None
    e_dual,            \* what _convert_to_dual_format gave for dual scoring, or None
    e_dual_run         \* the dual evaluation of run_eval: what failed in it and
                       \* the dual_result it left, or None

varsE == <<e_pc, e_attacks, e_next, e_results, e_last_call, e_req, e_work,
           e_error, e_response, e_dual, e_dual_run>>

\* Part M: construction of a models.TestResult by a caller
VARIABLES
    m_input,           \* the arguments of the latest construction, or None
    m_result,          \* the TestResult it built, or None
    m_call,            \* the latest call of a scoring or planner method, or None
    m_return           \* what that call returned or raised, and what it logged

\* Part L: one LLMClient with its SimpleCache
VARIABLES
    cache,             \* SimpleCache.cache: key -> (value, timestamp)
    now,               \* datetime.now(), in seconds since the client was built
    total_requests,    \* LLMClient.total_requests
    cache_hits,        \* LLMClient.cache_hits
    l_last             \* the latest call on the client or its cache, or None

varsL == <<cache, now, total_requests, cache_hits, l_last>>

\* Part R: one PromptRenderer.render call
VARIABLES
    r_template,        \* template, as render and _render_blocks rebind it
    r_prev,            \* prev_template of _render_blocks, None before the loop
    r_context,         \* context
    r_pc               \* position in render

varsR == <<r_template, r_prev, r_context, r_pc>>

varsM == <<m_input, m_result, m_call, m_return, varsL, varsR>>

\* The parts not running in a specification stay as they are.
IdleJ ==
    /\ cfg = None /\ pc = "idle" /\ round_num = 0 /\ all_results = <<>>
    /\ tested_ids = {} /\ round_history = <<>> /\ previous_metrics = None
    /\ current_phase = "idle" /\ batch_size = 0 /\ performance = None
    /\ test_plan = None /\ test_samples = <<>> /\ round_results = <<>>
    /\ decisions = <<>> /\ response = None /\ task_status = "idle"
    /\ raised = None

IdleE ==
    /\ e_pc = "idle" /\ e_attacks = <<>> /\ e_next = 0 /\ e_results = <<>>
    /\ e_last_call = None /\ e_req = None /\ e_work = <<>> /\ e_error = None
    /\ e_response = None /\ e_dual = None /\ e_dual_run = None

\* LLMClient.__init__ and SimpleCache.__init__: an empty cache, counters at 0.
IdleL ==
    /\ cache = <<>> /\ now = 0 /\ total_requests = 0 /\ cache_hits = 0
    /\ l_last = None

\* No render call is running.
IdleR == r_template = <<>> /\ r_prev = None /\ r_context = None /\ r_pc = "idle"

IdleM ==
    /\ m_input = None /\ m_result = None /\ m_call = None /\ m_return = None
    /\ IdleL
    /\ IdleR

\* The loop started in the exploitation phase.
InitialPhaseExploitation == EXPLOITATION

\* current_phase = TestPhase.EXPLORATION before the first round
InitialPhase == EXPLORATION

\* The phase of the plan of the first round (decide_next_batch(phase=EXPLORATION))
FirstRoundPlanPhase == EXPLORATION

InitJ ==
    /\ cfg \in Configs
    /\ pc = "parse"
    /\ round_num = 1
    /\ all_results = <<>>
    /\ tested_ids = {}
    /\ round_history = <<>>
    /\ previous_metrics = None
    /\ current_phase = InitialPhase
    /\ batch_size = 0
    /\ performance = None
    /\ test_plan = None
    /\ test_samples = <<>>
    /\ round_results = <<>>
    /\ decisions = <<>>
    /\ response = None
    /\ task_status = "submitted"
    /\ raised = None

\* The exception handler letting the exception through to the caller.
run_eval_reraise(e) ==
    [response |-> [propagated |-> e], task_status |-> "running"]

\* run_eval, "except Exception as e": the task is updated to failed and an
\* EvalResponse with success=False is returned.
run_eval_except(e) ==
    [response |-> [success |-> FALSE, error_message |-> [str |-> e.message],
                   tests_executed |-> 0,
                   metrics |-> None, total_rounds |-> 0,
                   termination_reason |-> None],
     task_status |-> "failed"]

\* EvaluationConfig(test_budget=...) with Field(100, ge=1): the pydantic
\* ValidationError of a budget below 1, or None.
ConfigValidationError(config) ==
    IF config.test_budget >= 1 THEN None
    ELSE [exception |-> "ValidationError",
          message |-> "test_budget: Input should be greater than or equal to 1"]

\* ScoringEngine.calculate_metrics, "if not results: raise ValueError"
EmptyResultsError ==
    [exception |-> "ValueError",
     message |-> "Cannot calculate metrics from empty results list"]

\* run_eval up to the call of _run_adaptive_evaluation: _parse_config, then
\* the update of the task to running.
ParseConfig ==
    /\ pc = "parse"
    /\ UNCHANGED <<varsE, varsM>>
    /\ LET e == ConfigValidationError(cfg)
       IN IF e # None
          THEN /\ raised' = e
               /\ response' = run_eval_except(e).response
               /\ task_status' = run_eval_except(e).task_status
               /\ pc' = "done"
          ELSE /\ task_status' = "running"
               /\ pc' = "loop"
               /\ UNCHANGED <<raised, response>>
    /\ UNCHANGED <<cfg, round_num, all_results, tested_ids, round_history,
                   previous_metrics, current_phase, batch_size, performance,
                   test_plan, test_samples, round_results, decisions>>

\* Top of a loop iteration: the range check of the for loop, the budget check
\* and the batch size.
RoundStart ==
    /\ pc = "loop"
    /\ UNCHANGED <<varsE, varsM>>
    /\ UNCHANGED <<task_status, raised>>
    /\ LET remaining_budget == cfg.test_budget - Len(all_results)
       IN IF round_num > cfg.max_rounds \/ remaining_budget <= 0
          THEN /\ pc' = "finalize"
               /\ UNCHANGED batch_size
          ELSE /\ batch_size' =
                    IF round_num = 1
                    THEN Min(cfg.initial_exploration_size, remaining_budget)
                    ELSE Min(remaining_budget \div (cfg.max_rounds - round_num + 1),
                             remaining_budget)
               /\ pc' = "plan"
    /\ UNCHANGED <<cfg, round_num, all_results, tested_ids, round_history,
                   previous_metrics, current_phase, performance, test_plan,
                   test_samples, round_results, decisions, response>>

\* The previous_performance argument _run_adaptive_evaluation passes to
\* should_terminate_early.
PreviousPerformanceArgument == None

\* "if all_results:" branch: analysis, early termination, next phase, next batch.
PlanLaterRound ==
    /\ pc = "plan"
    /\ UNCHANGED <<varsE, varsM>>
    /\ UNCHANGED <<task_status, raised>>
    /\ all_results # <<>>
    /\ LET perf == analyze_performance(all_results, previous_metrics)
           term == should_terminate_early(round_num, cfg.max_rounds, Len(all_results),
                                          cfg.test_budget, perf,
                                          PreviousPerformanceArgument)
           next_phase == decide_next_phase(current_phase, round_num, perf,
                                           Len(all_results), cfg.test_budget)
           plan == decide_next_batch(next_phase, batch_size, perf, all_categories,
                                     cfg.min_category_samples)
       IN /\ performance' = perf
          /\ IF term.terminate
             THEN /\ decisions' = Append(decisions,
                                         Decision("early_termination", VALIDATION))
                  /\ pc' = "finalize"
                  /\ UNCHANGED <<current_phase, test_plan>>
             ELSE /\ decisions' =
                       Append(Append(decisions,
                                     Decision("early_termination", VALIDATION)),
                              Decision("test_allocation", current_phase))
                       \o plan.logged
                  /\ current_phase' = next_phase
                  /\ test_plan' = plan
                  /\ pc' = "sample"
    /\ UNCHANGED <<cfg, round_num, all_results, tested_ids, round_history,
                   previous_metrics, batch_size, test_samples, round_results,
                   response>>

\* "else" branch: the first round.
PlanFirstRound ==
    /\ pc = "plan"
    /\ UNCHANGED <<varsE, varsM>>
    /\ UNCHANGED <<task_status, raised>>
    /\ all_results = <<>>
    /\ LET plan == decide_next_batch(FirstRoundPlanPhase, batch_size, None,
                                     all_categories, cfg.min_category_samples)
       IN /\ test_plan' = plan
          /\ decisions' = decisions \o plan.logged
    /\ performance' = None
    /\ pc' = "sample"
    /\ UNCHANGED <<cfg, round_num, all_results, tested_ids, round_history,
                   previous_metrics, current_phase, batch_size, test_samples,
                   round_results, response>>

\* Available with the tested_ids filter lost.
AvailableUnfiltered(category, tested) == get_samples_by_category(category)

\* _sample_according_to_plan: "available = [s for s in category_samples if s.id
\* not in tested_ids]"
Available(category, tested) ==
    {id \in get_samples_by_category(category) : id \notin tested}

\* The subsets of S with k elements.
SubsetsOfSize(S, k) == {T \in SUBSET S : Cardinality(T) = k}

RECURSIVE SelectionsAmongAll(_, _)
\* Selections drawing from every sample of the category, tested or not.
SelectionsAmongAll(allocations, tested) ==
    IF allocations = <<>> THEN {<<>>}
    ELSE LET available == get_samples_by_category(Head(allocations).category)
             count == Min(Head(allocations).allocated_count, Cardinality(available))
         IN {SetToSeq(chosen) \o rest :
               chosen \in SubsetsOfSize(available, count),
               rest \in SelectionsAmongAll(Tail(allocations), tested)}

RECURSIVE Selections(_, _)
\* _sample_according_to_plan, the loop over the allocations: for each one,
\* random.sample of min(allocated_count, len(available)) of the available
\* samples.  Every choice random.sample can make is a member; the order it
\* returns within one category is taken ascending.
Selections(allocations, tested) ==
    IF allocations = <<>> THEN {<<>>}
    ELSE LET available == Available(Head(allocations).category, tested)
             count == Min(Head(allocations).allocated_count, Cardinality(available))
         IN {SetToSeq(chosen) \o rest :
               chosen \in SubsetsOfSize(available, count),
               rest \in Selections(Tail(allocations), tested)}

\* _sample_according_to_plan
SampleAccordingToPlan ==
    /\ pc = "sample"
    /\ UNCHANGED <<varsE, varsM>>
    /\ UNCHANGED <<task_status, raised>>
    /\ test_samples' \in Selections(test_plan.allocations, tested_ids)
    /\ round_results' = <<>>
    /\ pc' = "execute"
    /\ UNCHANGED <<cfg, round_num, all_results, tested_ids, round_history,
                   previous_metrics, current_phase, batch_size, performance,
                   test_plan, decisions, response>>

\* _execute_tests, one iteration of its loop: the call to the purple agent,
\* then the TestResult of the answer or, on any exception, the TestResult of
\* the error path.
ExecuteTest ==
    /\ pc = "execute"
    /\ UNCHANGED <<varsE, varsM>>
    /\ UNCHANGED <<task_status, raised>>
    /\ Len(round_results) < Len(test_samples)
    /\ LET id == test_samples[Len(round_results) + 1]
           gt == SampleIsVulnerable(id)
       IN \E o \in CallOutcomes :
            round_results' = Append(round_results,
              IF o \in {"vulnerable", "not_vulnerable"}
              THEN TestResult(id, gt, o = "vulnerable",
                              judge_determine_outcome(gt, o = "vulnerable"),
                              SampleCategory(id))
              ELSE TestResult(id, gt, FALSE,
                              IF gt THEN FALSE_NEGATIVE ELSE TRUE_NEGATIVE,
                              SampleCategory(id)))
    /\ UNCHANGED <<cfg, pc, round_num, all_results, tested_ids, round_history,
                   previous_metrics, current_phase, batch_size, performance,
                   test_plan, test_samples, decisions, response>>

\* ExtendResults losing the last result of the round.
ExtendResultsButLast(results, new_results) ==
    results \o SubSeq(new_results, 1, Len(new_results) - 1)

\* "all_results.extend(round_results)"
ExtendResults(results, new_results) == results \o new_results

\* RoundResults
RoundResults(n, phase, results, cumulative, logged) ==
    [round_number |-> n,
     phase |-> phase,
     metrics |-> calculate_metrics(results),
     tests_executed |-> Len(results),
     cumulative_tests |-> cumulative,
     decisions_made |-> logged]

\* After _execute_tests has returned: tested ids, accumulated results, round
\* metrics, round history.  calculate_metrics raises ValueError on an empty
\* round, which run_eval turns into the failed response.
RecordRound ==
    /\ pc = "execute"
    /\ UNCHANGED <<varsE, varsM>>
    /\ Len(round_results) = Len(test_samples)
    /\ tested_ids' = tested_ids \cup
                       {round_results[i].test_case_id : i \in DOMAIN round_results}
    /\ all_results' = ExtendResults(all_results, round_results)
    /\ IF round_results = <<>>
       THEN /\ pc' = "done"
            /\ raised' = EmptyResultsError
            /\ response' = run_eval_except(EmptyResultsError).response
            /\ task_status' = run_eval_except(EmptyResultsError).task_status
            /\ UNCHANGED <<round_history, previous_metrics, round_num>>
       ELSE /\ round_history' =
                 Append(round_history,
                        RoundResults(round_num, current_phase, round_results,
                                     Len(all_results'), Len(decisions)))
            /\ previous_metrics' = calculate_metrics(round_results)
            /\ round_num' = round_num + 1
            /\ pc' = "loop"
            /\ UNCHANGED <<response, task_status, raised>>
    /\ UNCHANGED <<cfg, current_phase, batch_size, performance, test_plan,
                   test_samples, round_results, decisions>>

\* After the loop: final metrics and the EvalResponse.
Finalize ==
    /\ pc = "finalize"
    /\ UNCHANGED <<varsE, varsM>>
    /\ pc' = "done"
    /\ raised' = IF all_results = <<>> THEN EmptyResultsError ELSE None
    /\ task_status' =
         IF all_results = <<>>
         THEN run_eval_except(EmptyResultsError).task_status
         ELSE "completed"
    /\ response' =
         IF all_results = <<>>
         THEN run_eval_except(EmptyResultsError).response
         ELSE [success |-> TRUE,
               error_message |-> None,
               tests_executed |-> Len(all_results),
               metrics |-> calculate_metrics(all_results),
               total_rounds |-> Len(round_history),
               termination_reason |->
                   IF Len(round_history) = cfg.max_rounds
                   THEN "Completed all rounds" ELSE "Early termination"]
    /\ UNCHANGED <<cfg, round_num, all_results, tested_ids, round_history,
                   previous_metrics, current_phase, batch_size, performance,
                   test_plan, test_samples, round_results, decisions>>

NextJ ==
    \/ ParseConfig
    \/ RoundStart
    \/ PlanLaterRound
    \/ PlanFirstRound
    \/ SampleAccordingToPlan
    \/ ExecuteTest
    \/ RecordRound
    \/ Finalize

vars == <<varsJ, varsE, varsM>>

\* The adaptive evaluation of the judge.
Init == InitJ /\ IdleE /\ IdleM

Next == NextJ

Spec == Init /\ [][Next]_vars

\* ------------------------------------------------- properties of the judge loop
\* The step of the loop that plans a later round and goes on to run it.
PlansNextRound == pc = "plan" /\ pc' = "sample" /\ round_num >= 2

\* The phase of the round before the current one.
PreviousRoundPhase == round_history[Len(round_history)].phase

\* C4: the number of tests an adaptive evaluation has executed never exceeds
\* its test_budget.
C4_TestsWithinBudget == Len(all_results) <= cfg.test_budget

C6_ValidationAfterTwoStableRounds ==
    [][(PlansNextRound /\ current_phase # VALIDATION /\ current_phase' = VALIDATION)
         => /\ performance'.performance_trend = "stable"
            /\ performance # None
            /\ performance.performance_trend = "stable"
            /\ cfg.test_budget - Len(all_results) > ValidationMinimum]_vars

\* C6 (amended): the evaluation enters validation only from exploitation, when
\* the analysis of the round that enters it finds the trend stable and the
\* remaining budget exceeds the validation minimum.
C6_ValidationAfterStableExploitation ==
    [][(PlansNextRound /\ current_phase # VALIDATION /\ current_phase' = VALIDATION)
         => /\ current_phase = EXPLOITATION
            /\ performance'.performance_trend = "stable"
            /\ cfg.test_budget - Len(all_results) > ValidationMinimum]_vars

\* C6 witness: a round planned as validation right after an exploitation round.
C6_Witness ==
    /\ pc = "sample" /\ round_num >= 3
    /\ PreviousRoundPhase = EXPLOITATION
    /\ current_phase = VALIDATION
    /\ performance.performance_trend = "stable"

\* C7: when the overall F1 is at least 0.90, no category is weak and the
\* performance is stable, the evaluation stops before running another round.
C7_ExcellentStableStops ==
    (pc = "sample" /\ round_num >= 2)
        => ~ /\ FracGe(performance.overall_f1, ExcellentF1)
             /\ performance.weak_categories = <<>>
             /\ performance.performance_trend = "stable"

\* C8: the first round of an adaptive evaluation always runs in the
\* exploration phase.
C8_FirstRoundIsExploration ==
    /\ (round_num = 1 /\ test_plan # None)
          => (test_plan.phase = EXPLORATION /\ current_phase = EXPLORATION)
    /\ round_history # <<>> => round_history[1].phase = EXPLORATION

\* C8 witness: the first round has run and is in the history.
C8_Witness ==
    /\ round_history # <<>>
    /\ round_history[1].round_number = 1
    /\ round_history[1].tests_executed > 0

\* C9: the samples chosen for a validation round never include a sample whose
\* id is already in tested_ids.
C9_ValidationSamplesAreFresh ==
    (pc = "execute" /\ test_plan.phase = VALIDATION)
        => \A i \in DOMAIN test_samples :
              /\ test_samples[i] \notin tested_ids
              /\ \A j \in DOMAIN all_results :
                    all_results[j].test_case_id # test_samples[i]

\* C9 witness: a validation round with samples to run, after earlier rounds
\* have tested some.
C9_Witness ==
    /\ pc = "execute" /\ test_plan.phase = VALIDATION
    /\ test_samples # <<>>
    /\ tested_ids # {}

\* C10: the planner analyses and plans round r+1 only after all TestResults of
\* round r have been appended to the accumulated results.
C10_PlanAfterRoundAppended ==
    (pc \in {"plan", "sample"} /\ round_num >= 2)
        => /\ Len(round_results) = Len(test_samples)
           /\ Len(all_results) =
                 SumSeq([i \in DOMAIN round_history |->
                           round_history[i].tests_executed])
           /\ SubSeq(all_results, Len(all_results) - Len(round_results) + 1,
                     Len(all_results)) = round_results
           /\ pc = "sample"
                 => performance = analyze_performance(all_results, previous_metrics)

\* C10 witness: round 3 is planned on the results of two completed rounds.
C10_Witness ==
    /\ pc = "sample" /\ round_num = 3
    /\ Len(round_history) = 2
    /\ Len(all_results) > Len(round_results)
    /\ round_results # <<>>

C12_FailureKeepsExecutedTests ==
    (pc = "done" /\ raised # None) =>
        /\ "tests_executed" \in DOMAIN response
        /\ response.tests_executed = Len(all_results)

\* The seconds the evaluation has spent in calls to the purple agent.
Elapsed == TestSeconds * (Len(all_results) + Len(round_results))

\* A step of _execute_tests that issues one more test.
IssuesTest == pc = "execute" /\ Len(round_results') = Len(round_results) + 1

\* C18: the evaluation issues no test once timeout_seconds, the limit for the
\* entire evaluation, has elapsed.
C18_NoTestAfterTimeout ==
    [][IssuesTest => Elapsed < cfg.timeout_seconds]_vars

\* C16: an evaluation requested with a budget of 0 returns at once, with no
\* test executed, an empty assessment and the status completed, not failed.
C16_ZeroBudgetCompletes ==
    (cfg.test_budget = 0 /\ pc = "done") =>
        /\ all_results = <<>>
        /\ response.success = TRUE
        /\ task_status = "completed"

\* C22: when categories_to_test is set, no sample of a category outside that
\* list is tested.
C22_OnlyListedCategoriesTested ==
    ("categories_to_test" \in DOMAIN cfg /\ cfg.categories_to_test # None) =>
        \A i \in DOMAIN round_results :
            \E j \in DOMAIN cfg.categories_to_test.list :
                cfg.categories_to_test.list[j] = round_results[i].category

\* The test_case_ids of a list of results.
ResultIds(results) == {results[i].test_case_id : i \in DOMAIN results}

\* No two results of the list are of the same sample.
NoRepeat(results) == Cardinality(ResultIds(results)) = Len(results)

\* C31: across the rounds of one adaptive evaluation no sample id is tested
\* twice, and tested_ids is the set of test_case_ids of the accumulated results.
C31_NoSampleTestedTwice ==
    /\ NoRepeat(all_results)
    /\ tested_ids = ResultIds(all_results)

\* Two rounds are recorded and the second one added results to the first's.
C31_Witness ==
    /\ Len(round_history) >= 2
    /\ round_history[2].cumulative_tests > round_history[1].cumulative_tests
    /\ Len(all_results) = round_history[2].cumulative_tests

\* should_terminate_early, its conditions 3 and 4 alone.
perf_stop(round_number, perf, previous_performance) ==
    \/ /\ previous_performance # None
       /\ FracGe(perf.overall_f1, ExcellentF1)
       /\ perf.performance_trend = "stable"
       /\ perf.weak_categories = <<>>
    \/ /\ round_number >= 3
       /\ perf.weak_categories = <<>>
       /\ perf.performance_trend = "stable"

\* should_terminate_early conditions 3 and 4 (excellent and stable, or stable
\* without weak categories from round 3 on) hold for the round the loop is in.
StoppedByPerformance ==
    /\ performance # None
    /\ perf_stop(round_num, performance, PreviousPerformanceArgument)

\* The evaluation has returned its response without the budget, the
\* performance conditions or a lack of samples having stopped it.
EndedUnstopped ==
    /\ pc = "done"
    /\ response.success
    /\ Len(all_results) < cfg.test_budget
    /\ ~StoppedByPerformance
    /\ \E id \in SampleIds : id \notin tested_ids

\* C32: an adaptive evaluation with max_rounds = N that is stopped neither by
\* the budget, nor by the stability/excellence conditions, nor by running out
\* of samples executes exactly N rounds and reports 'Completed all rounds'.
C32_CompletesAllRounds ==
    EndedUnstopped =>
        /\ response.total_rounds = cfg.max_rounds
        /\ response.termination_reason = "Completed all rounds"

\* The position of a phase in the order exploration, exploitation, validation.
PhaseRank(phase) == CASE phase = EXPLORATION -> 1 [] phase = EXPLOITATION -> 2 [] phase = VALIDATION -> 3

\* C33: over the rounds of an adaptive evaluation the phase never moves
\* backwards in the order exploration, exploitation, validation.
C33_PhaseNeverMovesBack ==
    [][PhaseRank(current_phase') >= PhaseRank(current_phase)]_vars

\* The third round is planned after a second round run in exploitation.
C33_Witness ==
    /\ round_num = 3
    /\ pc = "sample"
    /\ Len(round_history) = 2
    /\ round_history[2].phase = EXPLOITATION
    /\ current_phase \in {EXPLOITATION, VALIDATION}

\* The evaluation has ended after a round whose plan found no untested sample,
\* earlier rounds having executed tests.
EndedOnExhaustedRound ==
    /\ pc = "done"
    /\ test_plan # None
    /\ test_samples = <<>>
    /\ all_results # <<>>

\* C34: if a round's plan yields no available untested sample, the adaptive
\* evaluation still ends successfully with the metrics of the tests already
\* executed.
C34_ExhaustedDatasetEndsSuccessfully ==
    EndedOnExhaustedRound =>
        /\ response.success
        /\ response.tests_executed = Len(all_results)
        /\ response.metrics = calculate_metrics(all_results)

\* The terminal states of a task.
TerminalStates == {"completed", "failed"}

\* SQLInjectionJudge.run_eval reports one terminal state: once the task is
\* completed or failed its status is not updated again, and the response
\* returned has success exactly when the state reported is completed.
JudgeReportsOneTerminalState ==
    /\ [][(task_status \in TerminalStates) => (task_status' = task_status)]_vars
    /\ [](pc = "done" => (/\ task_status \in TerminalStates
                          /\ response.success <=> (task_status = "completed")))

\* ============================== Part M: construction of a models.TestResult
\* A value given for outcome that is no DetectionOutcome instance.
NotAnOutcome == "not_a_detection_outcome"

\* TestResult(test_case_id=..., ground_truth=..., predicted=..., outcome=...,
\* category=...): the pydantic model is built from the arguments of the caller.
ConstructTestResult ==
    /\ \E id \in SampleIds, ground_truth \in BOOLEAN, predicted \in BOOLEAN,
          outcome \in DetectionOutcome \cup {NotAnOutcome} :
         /\ m_input' = [test_case_id |-> id, ground_truth |-> ground_truth,
                        predicted |-> predicted, outcome |-> outcome]
         /\ m_result' = TestResult(id, ground_truth, predicted, outcome,
                                   SampleCategory(id))
    /\ UNCHANGED <<m_call, m_return>>
    /\ UNCHANGED <<varsJ, varsE, varsL, varsR>>

InitModels == IdleJ /\ IdleE /\ IdleM

NextModels == ConstructTestResult

SpecModels == InitModels /\ [][NextModels]_vars

\* The outcome the formula of the data model gives for a detection flag and a
\* ground truth.
OutcomeFormula(ground_truth, predicted) ==
    IF predicted /\ ground_truth THEN TRUE_POSITIVE
    ELSE IF predicted /\ ~ground_truth THEN FALSE_POSITIVE
    ELSE IF ~predicted /\ ground_truth THEN FALSE_NEGATIVE
    ELSE TRUE_NEGATIVE

\* C1: every TestResult's outcome agrees with its own detection flag and
\* ground truth (detected and malicious TP, detected and benign FP, not
\* detected and malicious FN, not detected and benign TN), also when the
\* outcome is supplied explicitly.
C1_OutcomeAgrees ==
    m_result # None
        => m_result.outcome = OutcomeFormula(m_result.ground_truth, m_result.predicted)

\* ------------------------- calls of ScoringEngine and AdaptiveTestPlanner
\* Largest batch size a planner call is made with.
MaxBatch == 10

\* Longest list of results calculate_metrics is called with.
MaxScored == 5

\* AdaptiveConfig.min_category_samples of the planner the calls are made on:
\* the smallest value and the default.
MinCategorySamplesDefault == 5

PlannerMinCategorySamples == {1, MinCategorySamplesDefault}

\* The samples whose results are scored: the first sample of each category
\* (vulnerable) and the third sample of the dataset (not vulnerable).
ScoredSamples ==
    {3} \cup {(i - 1) * SamplesPerCategory + 1 : i \in DOMAIN all_categories}

\* The TestResults of the answers to these samples.
ScoredResults ==
    {TestResult(id, SampleIsVulnerable(id), predicted,
                judge_determine_outcome(SampleIsVulnerable(id), predicted),
                SampleCategory(id)) : id \in ScoredSamples, predicted \in BOOLEAN}

\* The lists of results calculate_metrics is called with, the empty one included.
ScoredLists ==
    UNION {[1 .. n -> ScoredResults] : n \in 0 .. MaxScored}

\* ScoringEngine.calculate_metrics as a call: "if not results: raise
\* ValueError", else the EvaluationMetrics.
calculate_metrics_call(results) ==
    IF results = <<>>
    THEN [raised |-> EmptyResultsError]
    ELSE [value |-> calculate_metrics(results)]

\* The category lists a planner call is given: those of the dataset, or none
\* when the dataset holds no sample.
CategoryLists == {<<>>, all_categories}

\* The weak category lists an analysis can hold for a category list.
WeakLists(categories) ==
    {SelectSeq(categories, LAMBDA c : c \in W) :
        W \in SUBSET {categories[i] : i \in DOMAIN categories}}

\* PerformanceAnalysis values the planner calls are made with.
Performances(categories) ==
    [overall_f1 : {Frac(1, 2), Frac(1, 1)},
     weak_categories : WeakLists(categories),
     strong_categories : {<<>>},
     performance_trend : {"stable", "declining"}]

\* What decide_next_phase appends to the decision log.
decide_next_phase_logged(current) == <<Decision("test_allocation", current)>>

\* What should_terminate_early appends to the decision log, on each of its
\* five returns.
should_terminate_early_logged == <<Decision("early_termination", VALIDATION)>>

\* The list with the results at i and i + 1 exchanged.
SwapAdjacent(results, i) ==
    [k \in DOMAIN results |->
       IF k = i THEN results[i + 1] ELSE IF k = i + 1 THEN results[i] ELSE results[k]]

\* The lists a further scoring call is made with: the results of the call
\* before, as they were or with two neighbours exchanged.
Rearrangements(results) ==
    {results} \cup {SwapAdjacent(results, i) : i \in 1 .. (Len(results) - 1)}

\* The results of the next scoring call: any list for the first call of the
\* engine, a rearrangement of the scored list for a call that follows one.
NextScoredLists ==
    IF m_call = None THEN ScoredLists
    ELSE IF "results" \in DOMAIN m_call THEN Rearrangements(m_call.results)
    ELSE {}

\* One call of ScoringEngine.calculate_metrics.
CallCalculateMetrics ==
    /\ \E results \in NextScoredLists :
         /\ m_call' = [function |-> "calculate_metrics", results |-> results]
         /\ m_return' = calculate_metrics_call(results)
    /\ UNCHANGED <<m_input, m_result>>
    /\ UNCHANGED <<varsJ, varsE, varsL, varsR>>

\* One call of ScoringEngine.calculate_category_metrics.
CallCalculateCategoryMetrics ==
    /\ \E results \in NextScoredLists :
         /\ m_call' = [function |-> "calculate_category_metrics",
                       results |-> results]
         /\ m_return' = [value |-> calculate_category_metrics(results)]
    /\ UNCHANGED <<m_input, m_result>>
    /\ UNCHANGED <<varsJ, varsE, varsL, varsR>>

\* One call of AdaptiveTestPlanner.decide_next_phase.
CallDecideNextPhase ==
    /\ m_call = None
    /\ \E current \in TestPhase, round_number \in 1 .. 2,
          perf \in Performances(all_categories), test_budget \in {3, 27} :
         /\ m_call' = [function |-> "decide_next_phase", current_phase |-> current,
                       round_number |-> round_number, performance |-> perf,
                       total_tests_executed |-> 2, test_budget |-> test_budget]
         /\ m_return' =
              [value |-> decide_next_phase(current, round_number, perf, 2,
                                           test_budget),
               logged |-> decide_next_phase_logged(current)]
    /\ UNCHANGED <<m_input, m_result>>
    /\ UNCHANGED <<varsJ, varsE, varsL, varsR>>

\* One call of AdaptiveTestPlanner.decide_next_batch.
CallDecideNextBatch ==
    /\ m_call = None
    /\ \E phase \in TestPhase, batch \in 1 .. MaxBatch,
          categories \in CategoryLists,
          min_category_samples \in PlannerMinCategorySamples :
         \E weak \in WeakLists(categories) :
           LET perf == [overall_f1 |-> Frac(1, 2), weak_categories |-> weak,
                        strong_categories |-> <<>>,
                        performance_trend |-> "stable"]
               plan == decide_next_batch(phase, batch, perf, categories,
                                         min_category_samples)
           IN /\ m_call' = [function |-> "decide_next_batch", phase |-> phase,
                            batch_size |-> batch, performance |-> perf,
                            all_categories |-> categories,
                            min_category_samples |-> min_category_samples]
              /\ m_return' =
                   [value |-> [phase |-> plan.phase,
                               allocations |-> plan.allocations,
                               total_tests |-> plan.total_tests],
                    logged |-> plan.logged]
    /\ UNCHANGED <<m_input, m_result>>
    /\ UNCHANGED <<varsJ, varsE, varsL, varsR>>

\* One call of AdaptiveTestPlanner.should_terminate_early.
CallShouldTerminateEarly ==
    /\ m_call = None
    /\ \E round_number \in {1, 3}, max_rounds \in {1, 5},
          perf \in Performances(all_categories), total \in {2, 27},
          previous \in {None, [overall_f1 |-> Frac(1, 1), weak_categories |-> <<>>,
                               strong_categories |-> <<>>,
                               performance_trend |-> "stable"]} :
         /\ m_call' = [function |-> "should_terminate_early",
                       round_number |-> round_number, max_rounds |-> max_rounds,
                       total_tests_executed |-> total, test_budget |-> 27,
                       performance |-> perf, previous_performance |-> previous]
         /\ m_return' =
              [value |-> should_terminate_early(round_number, max_rounds, total,
                                                27, perf, previous),
               logged |-> should_terminate_early_logged]
    /\ UNCHANGED <<m_input, m_result>>
    /\ UNCHANGED <<varsJ, varsE, varsL, varsR>>

\* ------------------------------------------- DatasetManager.sample_diverse
\* Most categories in a filtered pool, most samples of one category, largest n.
MaxPoolCategories == 3

MaxCategorySize == 2

MaxRequested == 3

\* The filtered pools, as the number of samples of each category, in the order
\* the categories first appear in the pool.
Pools ==
    UNION {[1 .. k -> 1 .. MaxCategorySize] : k \in 1 .. MaxPoolCategories}

\* "max(allocation, key=allocation.get)": the first category with the largest
\* allocation
LargestAllocation(allocation) ==
    CHOOSE i \in DOMAIN allocation :
        /\ \A j \in DOMAIN allocation : allocation[j] <= allocation[i]
        /\ \A j \in 1 .. (i - 1) : allocation[j] < allocation[i]

\* DatasetManager._distribute_samples_by_category: max(1, int(total *
\* count / total_samples)) for each category, then the difference to total
\* added to or taken from the largest.
distribute_samples_by_category(category_counts, total) ==
    LET total_samples == SumSeq(category_counts)
        allocation == [i \in DOMAIN category_counts |->
                         Max(1, (total * category_counts[i]) \div total_samples)]
        current_total == SumSeq(allocation)
    IN IF current_total = total THEN allocation
       ELSE [allocation EXCEPT ![LargestAllocation(allocation)] =
                                  @ + (total - current_total)]

\* DatasetManager.sample_diverse(n) on a filtered pool: the number of samples
\* returned, or the ValueError of random.sample for a negative count.
sample_diverse(n, category_counts) ==
    LET pool_size == SumSeq(category_counts)
        samples_per_category == distribute_samples_by_category(category_counts, n)
        selected == [i \in DOMAIN category_counts |->
                       Min(samples_per_category[i], category_counts[i])]
        filled == IF SumSeq(selected) < n
                  THEN Min(n - SumSeq(selected), pool_size - SumSeq(selected))
                  ELSE 0
    IN IF pool_size <= n
       THEN [value |-> [length |-> pool_size, selected |-> category_counts,
                        filled |-> 0]]
       ELSE IF \E i \in DOMAIN selected : selected[i] < 0
       THEN [raised |-> [exception |-> "ValueError",
                         message |-> "Sample larger than population or is negative"]]
       ELSE [value |-> [length |-> Min(n, SumSeq(selected) + filled),
                        selected |-> selected, filled |-> filled]]

\* One call of DatasetManager.sample_diverse.
CallSampleDiverse ==
    /\ m_call = None
    /\ \E n \in 1 .. MaxRequested, pool \in Pools :
         /\ m_call' = [function |-> "sample_diverse", n |-> n, pool |-> pool]
         /\ m_return' = sample_diverse(n, pool)
    /\ UNCHANGED <<m_input, m_result>>
    /\ UNCHANGED <<varsJ, varsE, varsL, varsR>>

\* LLMClient retry wrapper (src/llm/client.py).  max_retries is read without
\* validation from the constructor argument or LLM_RETRY_ATTEMPTS.
MaxRetryAttempts == 3
RetryableStatusCodes == {500, 502, 503, 504}
StatusCodes == RetryableStatusCodes \cup {400}
ApiOutcomes == {[kind |-> "response"], [kind |-> "RateLimitError"], [kind |-> "APIConnectionError"], [kind |-> "APITimeoutError"]} \cup [kind : {"APIError"}, status_code : StatusCodes]

\* The loop of wrapper(): outcomes[attempt + 1] is what func() does on the
\* 0-based attempt; calls counts the invocations of func made so far.
RECURSIVE retry_loop(_, _, _, _)
retry_loop(max_retries, outcomes, attempt, last_exception) ==
    IF attempt >= max_retries
    THEN IF last_exception # None
         THEN [raised |-> "LLMError", message |-> "Failed after", calls |-> attempt]
         ELSE [returned |-> None, calls |-> attempt]
    ELSE LET o == outcomes[attempt + 1]
             calls == attempt + 1
             again == retry_loop(max_retries, outcomes, attempt + 1, o)
         IN  CASE o.kind = "response" -> [returned |-> o, calls |-> calls]
               [] o.kind = "RateLimitError" ->
                    IF attempt < max_retries - 1 THEN again
                    ELSE [raised |-> "LLMRateLimitError", message |-> "Rate limit exceeded after", calls |-> calls]
               [] o.kind \in {"APIConnectionError", "APITimeoutError"} ->
                    IF attempt < max_retries - 1 THEN again
                    ELSE [raised |-> "LLMTimeoutError", message |-> "Request failed after", calls |-> calls]
               [] o.kind = "APIError" ->
                    IF o.status_code \in RetryableStatusCodes
                    THEN IF attempt < max_retries - 1 THEN again
                         ELSE [raised |-> "LLMError", message |-> "API error after", calls |-> calls]
                    ELSE [raised |-> "LLMError", message |-> "API error", calls |-> calls]

retry_with_backoff(max_retries, outcomes) == retry_loop(max_retries, outcomes, 0, None)

CallRetryWithBackoff ==
    /\ m_call = None
    /\ \E max_retries \in 0 .. MaxRetryAttempts :
         \E outcomes \in [1 .. max_retries -> ApiOutcomes] :
            /\ m_call' = [function |-> "_retry_with_backoff", max_retries |-> max_retries, outcomes |-> outcomes]
            /\ m_return' = retry_with_backoff(max_retries, outcomes)
    /\ UNCHANGED <<m_input, m_result>>
    /\ UNCHANGED <<varsJ, varsE, varsL, varsR>>

InitCalls == IdleJ /\ IdleE /\ IdleM

NextCalls ==
    \/ CallCalculateMetrics
    \/ CallCalculateCategoryMetrics
    \/ CallDecideNextPhase
    \/ CallDecideNextBatch
    \/ CallShouldTerminateEarly
    \/ CallSampleDiverse
    \/ CallRetryWithBackoff

\* Calls of the scoring engine and of a fresh planner: one planner call, or a
\* scoring call followed by scoring calls on the same results rearranged.
SpecCalls == InitCalls /\ [][NextCalls]_vars

\* The call m_call is one of function f.
Called(f) == "function" \in DOMAIN m_call /\ m_call.function = f

\* C17: scoring an empty list of results yields metrics that are all zero
\* (zero confusion counts, zero rates); no error is raised.
C17_EmptyScoresZero ==
    (Called("calculate_metrics") /\ m_call.results = <<>>) =>
        /\ "value" \in DOMAIN m_return
        /\ m_return.value.total_samples = 0
        /\ ConfusionTotal(m_return.value.confusion_matrix) = 0
        /\ m_return.value.f1_score[1] = 0
        /\ m_return.value.precision[1] = 0
        /\ m_return.value.recall[1] = 0
        /\ m_return.value.false_positive_rate[1] = 0

\* C19: no call to decide_next_phase, decide_next_batch or
\* should_terminate_early returns without having appended a record to the
\* decision log.
C19_EveryDecisionLogged ==
    (Called("decide_next_phase") \/ Called("decide_next_batch")
       \/ Called("should_terminate_early"))
        => Len(m_return.logged) >= 1

\* The tests a plan allocates to the categories of the set S.
AllocatedTo(plan, S) ==
    SumSeq([i \in DOMAIN plan.allocations |->
              IF plan.allocations[i].category \in S
              THEN plan.allocations[i].allocated_count ELSE 0])

\* C20: in an exploitation plan for a batch of size B with at least one weak
\* category, the tests of the weak categories together are focus_percentage
\* of B (rounded down, and up to the rounding of the even split), and the
\* other categories share the remainder of B.
C20_FocusShareOfBatch ==
    (Called("decide_next_batch") /\ m_call.phase = EXPLOITATION
       /\ m_call.performance.weak_categories # <<>>) =>
        LET B == m_call.batch_size
            weak == m_call.performance.weak_categories
            weak_set == {weak[i] : i \in DOMAIN weak}
            other_set == {m_call.all_categories[i] :
                            i \in DOMAIN m_call.all_categories} \ weak_set
            focus == (B * focus_percentage[1]) \div focus_percentage[2]
            weak_total == AllocatedTo(m_return.value, weak_set)
            other_total == AllocatedTo(m_return.value, other_set)
        IN /\ weak_total <= focus
           /\ weak_total > focus - Len(weak)
           /\ other_set # {} =>
                 /\ other_total <= B - focus
                 /\ other_total > B - focus - Cardinality(other_set)

\* C21: every test plan, in every phase, allocates at least
\* min_category_samples tests to each category it is given.
C21_MinimumPerCategory ==
    Called("decide_next_batch") =>
        \A i \in DOMAIN m_call.all_categories :
            AllocatedTo(m_return.value, {m_call.all_categories[i]})
                >= m_call.min_category_samples

RECURSIVE CountInOrder(_, _)
\* The results of outcome o, counted one result after the other.
CountInOrder(results, o) ==
    IF results = <<>> THEN 0
    ELSE (IF Head(results).outcome = o THEN 1 ELSE 0) + CountInOrder(Tail(results), o)

\* The call is calculate_metrics on a non-empty list and has returned metrics.
ScoredNonEmpty ==
    /\ Called("calculate_metrics")
    /\ m_call.results # <<>>
    /\ "value" \in DOMAIN m_return

\* C24: for every non-empty list of results, the confusion matrix satisfies
\* TP + FP + TN + FN = number of results, each count being the number of
\* results with that outcome.
C24_ConfusionMatrixPartitions ==
    (Called("calculate_metrics") /\ m_call.results # <<>>) =>
        /\ "value" \in DOMAIN m_return
        /\ LET cm == m_return.value.confusion_matrix
               results == m_call.results
           IN /\ cm.true_positives + cm.false_positives + cm.true_negatives
                    + cm.false_negatives = Len(results)
              /\ m_return.value.total_samples = Len(results)
              /\ cm.true_positives = CountInOrder(results, TRUE_POSITIVE)
              /\ cm.false_positives = CountInOrder(results, FALSE_POSITIVE)
              /\ cm.true_negatives = CountInOrder(results, TRUE_NEGATIVE)
              /\ cm.false_negatives = CountInOrder(results, FALSE_NEGATIVE)

\* C24 witness: a list with all four outcomes has been scored.
C24_Witness ==
    /\ ScoredNonEmpty
    /\ \A o \in DetectionOutcome : CountInOrder(m_call.results, o) >= 1

\* The call c is one of the two scoring methods.
ScoringCall(c) ==
    /\ "function" \in DOMAIN c
    /\ c.function \in {"calculate_metrics", "calculate_category_metrics"}

\* Two lists hold the same results the same number of times.
SameMultiset(a, b) ==
    \A r \in ScoredResults :
        Cardinality({i \in DOMAIN a : a[i] = r})
            = Cardinality({i \in DOMAIN b : b[i] = r})

\* C25: the scoring engine's output depends only on the multiset of input
\* results: a call that follows another on the same results in another order
\* returns equal overall metrics and equal per-category metrics, whatever was
\* scored before.
C25_ScoringDependsOnMultiset ==
    [][(/\ ScoringCall(m_call) /\ ScoringCall(m_call')
        /\ m_call'.function = m_call.function
        /\ SameMultiset(m_call.results, m_call'.results))
          => m_return' = m_return]_vars

\* C25 witness: per-category metrics of a list that holds results of both
\* categories, out of category order and with different outcomes.
C25_Witness ==
    /\ Called("calculate_category_metrics")
    /\ Len(m_call.results) >= 3
    /\ m_call.results[1].category # m_call.results[2].category
    /\ m_call.results[1].outcome # m_call.results[2].outcome
    /\ m_call.results[2].outcome # m_call.results[3].outcome
    /\ Len(m_return.value) = 2

\* C26: for every non-empty result set, the computed F1 is 0 if and only if
\* TP = 0.
C26_F1ZeroIffNoTruePositive ==
    (Called("calculate_metrics") /\ m_call.results # <<>>) =>
        /\ "value" \in DOMAIN m_return
        /\ m_return.value.f1_score[2] # 0
        /\ (m_return.value.f1_score[1] = 0)
             <=> (CountInOrder(m_call.results, TRUE_POSITIVE) = 0)

\* C26 witness: a scored list with true positives and other outcomes, and F1
\* strictly between 0 and 1.
C26_Witness ==
    /\ ScoredNonEmpty
    /\ CountInOrder(m_call.results, TRUE_POSITIVE) >= 1
    /\ FracLt(Frac(0, 1), m_return.value.f1_score)
    /\ FracLt(m_return.value.f1_score, Frac(1, 1))

\* The fraction is the number 0.
IsZero(x) == x[2] # 0 /\ x[1] = 0

\* C27: a rate whose denominator is zero is reported as 0: precision is 0 when
\* TP + FP = 0, recall is 0 when TP + FN = 0, FPR is 0 when FP + TN = 0; a set
\* of benign results none of which was detected has precision 0 and FPR 0.
C27_ZeroDenominatorRatesAreZero ==
    (Called("calculate_metrics") /\ m_call.results # <<>>) =>
        /\ "value" \in DOMAIN m_return
        /\ LET tp == CountInOrder(m_call.results, TRUE_POSITIVE)
               fp == CountInOrder(m_call.results, FALSE_POSITIVE)
               tn == CountInOrder(m_call.results, TRUE_NEGATIVE)
               fn == CountInOrder(m_call.results, FALSE_NEGATIVE)
           IN /\ tp + fp = 0 => IsZero(m_return.value.precision)
              /\ tp + fn = 0 => IsZero(m_return.value.recall)
              /\ fp + tn = 0 => IsZero(m_return.value.false_positive_rate)
              /\ tn = Len(m_call.results) =>
                    /\ IsZero(m_return.value.precision)
                    /\ IsZero(m_return.value.false_positive_rate)

\* C27 witness: a set of benign results none of which was detected.
C27_Witness ==
    /\ ScoredNonEmpty
    /\ Len(m_call.results) >= 2
    /\ CountInOrder(m_call.results, TRUE_NEGATIVE) = Len(m_call.results)

\* C28: metrics follow the standard formulas on the confusion matrix:
\* precision = TP/(TP+FP), recall = TP/(TP+FN), F1 = 2PR/(P+R),
\* FPR = FP/(FP+TN) wherever the denominator is not 0; a set with TP > 0 and
\* no FP or FN scores precision = recall = F1 = 1 with FPR = FNR = 0; a set with
\* TP=2, TN=1, FP=1, FN=1 scores precision = recall = F1 = 2/3 with FPR = 1/2.
C28_StandardFormulas ==
    (Called("calculate_metrics") /\ m_call.results # <<>>) =>
        /\ "value" \in DOMAIN m_return
        /\ LET tp == CountInOrder(m_call.results, TRUE_POSITIVE)
               fp == CountInOrder(m_call.results, FALSE_POSITIVE)
               tn == CountInOrder(m_call.results, TRUE_NEGATIVE)
               fn == CountInOrder(m_call.results, FALSE_NEGATIVE)
               v == m_return.value
           IN /\ tp + fp > 0 => FracEq(v.precision, Frac(tp, tp + fp))
              /\ tp + fn > 0 => FracEq(v.recall, Frac(tp, tp + fn))
              /\ fp + tn > 0 => FracEq(v.false_positive_rate, Frac(fp, fp + tn))
              /\ tp > 0 => FracEq(v.f1_score, Frac(2 * tp, 2 * tp + fp + fn))
              /\ (tp > 0 /\ fp = 0 /\ fn = 0) =>
                    /\ FracEq(v.precision, Frac(1, 1))
                    /\ FracEq(v.recall, Frac(1, 1))
                    /\ FracEq(v.f1_score, Frac(1, 1))
                    /\ IsZero(v.false_positive_rate)
                    /\ IsZero(v.false_negative_rate)
              /\ (tp = 2 /\ tn = 1 /\ fp = 1 /\ fn = 1) =>
                    /\ FracEq(v.precision, Frac(2, 3))
                    /\ FracEq(v.recall, Frac(2, 3))
                    /\ FracEq(v.f1_score, Frac(2, 3))
                    /\ FracEq(v.false_positive_rate, Frac(1, 2))

\* C28 witness: the mixed set TP=2, TN=1, FP=1, FN=1 has been scored.
C28_Witness ==
    /\ ScoredNonEmpty
    /\ CountInOrder(m_call.results, TRUE_POSITIVE) = 2
    /\ CountInOrder(m_call.results, TRUE_NEGATIVE) = 1
    /\ CountInOrder(m_call.results, FALSE_POSITIVE) = 1
    /\ CountInOrder(m_call.results, FALSE_NEGATIVE) = 1

\* C29: for every n >= 1 and every non-empty filtered pool, sample_diverse(n)
\* returns a non-empty list of at most n samples; it never fails.
C29_SampleDiverseReturnsSamples ==
    Called("sample_diverse") =>
        /\ "value" \in DOMAIN m_return
        /\ m_return.value.length >= 1
        /\ m_return.value.length <= m_call.n

\* The typed errors of the LLM client: LLMError and its subclasses.
LLMErrors == {"LLMError", "LLMRateLimitError", "LLMTimeoutError"}

\* C30: for every max_retries value the retry wrapper calls the API at most
\* max_retries times and either returns the API response or raises an
\* LLMError; it never returns without a response.
C30_RetryReturnsResponseOrRaises ==
    Called("_retry_with_backoff") =>
        /\ m_return.calls <= m_call.max_retries
        /\ \/ "returned" \in DOMAIN m_return /\ m_return.returned = [kind |-> "response"]
           \/ "raised" \in DOMAIN m_return /\ m_return.raised \in LLMErrors

\* ============== Part E: CyberSecurityEvaluator through PurpleAgentA2AProxy
\* Attacks of one evaluation.
AttackCount == 2

\* PurpleAgentA2AProxy(endpoint, timeout=30.0): the httpx timeout, in seconds
ProxyTimeout == 30

\* detect: "future.result(timeout=self.timeout + 5)"
WrapperGrace == 5

\* _detect_async: "if response.status_code != 200"
HTTP_OK == 200

\* Attack (framework.models): the fields the proxy and the outcome read
Attack(attack_id, is_malicious) ==
    [attack_id |-> attack_id, is_malicious |-> is_malicious]

\* Seconds a phase of the HTTP exchange takes when it completes.  A phase that
\* reaches ProxyTimeout is ended by httpx with a timeout exception.
Durations == {1, 20}

\* What the target does with one POST.
Reply(connect_s, read_s, failure, status_code, body, text) ==
    [connect_s |-> connect_s, read_s |-> read_s, failure |-> failure,
     status_code |-> status_code, body |-> body, text |-> text]

\* The text of the first text part of a 200 answer: not JSON at all, JSON that
\* is no object, or an object with success true, false or absent.
Texts == {"not_json", "not_object", "success_true", "success_false", "no_success"}

\* A 200 answer: a body that is not JSON, a JSON object without parts, parts
\* without a text part, or parts with a text part.
OkShapes ==
    {<<"not_json", "-">>, <<"no_parts", "-">>, <<"no_text_part", "-">>}
        \cup {<<"text_part", t>> : t \in Texts}

Replies ==
    {Reply(ProxyTimeout, 0, "connect_timeout", 0, "-", "-"),
     Reply(1, 0, "connect_error", 0, "-", "-")}
    \cup {Reply(c, ProxyTimeout, "read_timeout", 0, "-", "-") : c \in Durations}
    \cup {Reply(c, r, "none", st, "-", "-") : c \in Durations, r \in Durations,
                                               st \in {404, 500}}
    \cup {Reply(c, r, "none", HTTP_OK, sh[1], sh[2]) :
             c \in Durations, r \in Durations, sh \in OkShapes}

\* framework.models.calculate_outcome(attack, detected)
calculate_outcome(attack, detected) ==
    IF detected /\ attack.is_malicious THEN "TestOutcome.TRUE_POSITIVE"
    ELSE IF detected /\ ~attack.is_malicious THEN "TestOutcome.FALSE_POSITIVE"
    ELSE IF ~detected /\ attack.is_malicious THEN "TestOutcome.FALSE_NEGATIVE"
    ELSE "TestOutcome.TRUE_NEGATIVE"

\* framework.models.TestResult as _detect_async builds it
FrameworkTestResult(result_id, attack, detected, reason) ==
    [result_id |-> result_id, attack_id |-> attack.attack_id,
     detected |-> detected, detection_reason |-> reason,
     outcome |-> calculate_outcome(attack, detected)]

\* _detect_async, "except Exception": the error returned as a non-detection
ErrorResult(attack) ==
    FrameworkTestResult(<<"result", attack.attack_id, "error">>, attack, FALSE,
                        "A2A call failed")

\* PurpleAgentA2AProxy._detect_async
detect_async(attack, reply) ==
    IF reply.failure # "none" THEN ErrorResult(attack)         \* client.post raises
    ELSE IF reply.status_code # HTTP_OK THEN ErrorResult(attack) \* raise Exception("HTTP Error")
    ELSE IF reply.body = "not_json" THEN ErrorResult(attack)    \* response.json() raises
    ELSE LET response_text == IF reply.body = "text_part" THEN reply.text ELSE ""
         IN IF response_text \in {"", "not_json"}               \* json.JSONDecodeError
            THEN FrameworkTestResult(<<"result", attack.attack_id>>, attack, TRUE,
                                     "Unable to parse response - assuming blocked")
            ELSE IF response_text = "not_object"                \* .get: AttributeError
            THEN ErrorResult(attack)
            ELSE LET success == response_text = "success_true"
                 IN FrameworkTestResult(<<"result", attack.attack_id>>, attack,
                                        ~success, "Action")

\* PurpleAgentA2AProxy.detect: the coroutine runs in a worker thread and
\* future.result waits for it timeout + 5 seconds, then raises TimeoutError.
detect(attack, reply) ==
    IF reply.connect_s + reply.read_s > ProxyTimeout + WrapperGrace
    THEN [raised |-> TRUE, result |-> None]
    ELSE [raised |-> FALSE, result |-> detect_async(attack, reply)]

\* The POSTs _detect_async sends for one attack: the single client.post of its
\* "async with" block, whatever comes back.
client_posts(attack, reply) == 1

\* The roles a request can name in its participants.
ParticipantSets == {{}, {"white_agent"}, {"purple_agent"}}

\* scenario_map.keys() of _load_scenario, in the order of the dict
ScenarioNames == <<"prompt_injection", "comprehensive_security">>

\* The config.scenario values of the requests.
RequestedScenarios == {"prompt_injection", "Comprehensive_Security", "sql_injection"}

\* str.lower on the requested names
lower(name) ==
    IF name = "Comprehensive_Security" THEN "comprehensive_security" ELSE name

Requests == [participants : ParticipantSets, scenario : RequestedScenarios]

\* validate_request accepting every request.
validate_request_accepts(req) == [ok |-> TRUE, msg |-> ""]

\* CyberSecurityEvaluator.validate_request
validate_request(req) ==
    IF "purple_agent" \notin req.participants
    THEN [ok |-> FALSE, msg |-> "Missing required participant: purple_agent"]
    ELSE [ok |-> TRUE, msg |-> ""]

\* _load_scenario falling back to the first registered scenario.
load_scenario_default(scenario_name) ==
    [raised |-> None, scenario |-> ScenarioNames[1]]

\* CyberSecurityEvaluator._load_scenario: the scenario of the name, or the
\* ValueError "Unknown scenario: <name>. Available: <keys>".
load_scenario(scenario_name) ==
    IF \E i \in DOMAIN ScenarioNames : ScenarioNames[i] = lower(scenario_name)
    THEN [raised |-> None, scenario |-> lower(scenario_name)]
    ELSE [raised |-> [exception |-> "ValueError",
                      unknown_scenario |-> scenario_name,
                      available |-> ScenarioNames],
          scenario |-> None]

\* run_eval, "except Exception as e": updater.failed("Error: ...") and the
\* EvalResponse with status failed.
EvalFailedResponse(req) ==
    [status |-> "failed", scenario |-> req.scenario, metrics |-> <<>>,
     evasions_found |-> 0, total_tests |-> 0]

InitEval ==
    /\ IdleJ /\ IdleM
    /\ e_pc = "received"
    /\ e_req \in Requests
    /\ e_attacks \in {[i \in 1 .. AttackCount |-> Attack(i, m[i])] :
                         m \in [1 .. AttackCount -> BOOLEAN]}
    /\ e_next = 1
    /\ e_results = <<>>
    /\ e_last_call = None
    /\ e_work = <<>>
    /\ e_error = None
    /\ e_response = None
    /\ e_dual = None
    /\ e_dual_run = None

\* The executor in front of the agent: the request is validated with
\* validate_request; a request that fails is answered with the validation
\* error and run_eval is not called.
ExecuteRequest ==
    /\ e_pc = "received"
    /\ LET v == validate_request(e_req)
       IN IF v.ok
          THEN e_pc' = "accepted" /\ UNCHANGED e_error
          ELSE e_pc' = "rejected" /\ e_error' = [validation_error |-> v.msg]
    /\ UNCHANGED <<e_attacks, e_next, e_results, e_last_call, e_req, e_work,
                   e_response, e_dual, e_dual_run, varsJ, varsM>>

\* run_eval up to engine.evaluate: the endpoint of the purple agent, the
\* EvalConfig, _load_scenario, then the proxy and the engine.  The ValueError
\* of _load_scenario ends run_eval in its "except Exception" branch.
RunEvalSetup ==
    /\ e_pc = "accepted"
    /\ LET loaded == load_scenario(e_req.scenario)
       IN IF loaded.raised # None
          THEN /\ e_work' = <<"load_scenario">>
               /\ e_error' = loaded.raised
               /\ e_response' = EvalFailedResponse(e_req)
               /\ e_pc' = "failed"
          ELSE /\ e_work' = <<"load_scenario", "proxy", "engine">>
               /\ e_pc' = "running"
               /\ UNCHANGED <<e_error, e_response>>
    /\ UNCHANGED <<e_attacks, e_next, e_results, e_last_call, e_req, e_dual,
                   e_dual_run, varsJ, varsM>>

\* engine.evaluate runs the next attack against the target.  A TestResult that
\* detect returns is recorded.  An exception that leaves detect either is
\* absorbed by the engine, which goes on with the next attack, or leaves
\* engine.evaluate and ends run_eval in its "except Exception" branch.
DetectAttack ==
    /\ e_pc = "running"
    /\ e_next <= Len(e_attacks)
    /\ \E reply \in Replies :
         LET attack == e_attacks[e_next]
             call == detect(attack, reply)
         IN /\ e_last_call' = [attack_id |-> attack.attack_id, reply |-> reply,
                               posts |-> client_posts(attack, reply),
                               raised |-> call.raised, result |-> call.result]
            /\ IF call.raised
               THEN /\ e_results' = e_results
                    /\ e_pc' \in {"running", "failed"}
               ELSE /\ e_results' = Append(e_results, call.result)
                    /\ e_pc' = "running"
    /\ e_next' = e_next + 1
    /\ e_work' = IF e_next = 1 THEN Append(e_work, "target_call") ELSE e_work
    /\ IF e_pc' = "failed"
       THEN /\ e_error' = [exception |-> "TimeoutError"]
            /\ e_response' = EvalFailedResponse(e_req)
       ELSE UNCHANGED <<e_error, e_response>>
    /\ UNCHANGED <<e_attacks, e_req, e_dual, e_dual_run, varsJ, varsM>>

\* _convert_to_dual_format, outcome_map: TestOutcome to DetectionOutcome, an
\* outcome that is neither mapped to TRUE_POSITIVE.
outcome_map(outcome) ==
    IF outcome \in DetectionOutcome THEN outcome
    ELSE IF outcome = "TestOutcome.TRUE_POSITIVE" THEN TRUE_POSITIVE
    ELSE IF outcome = "TestOutcome.FALSE_POSITIVE" THEN FALSE_POSITIVE
    ELSE IF outcome = "TestOutcome.TRUE_NEGATIVE" THEN TRUE_NEGATIVE
    ELSE IF outcome = "TestOutcome.FALSE_NEGATIVE" THEN FALSE_NEGATIVE
    ELSE TRUE_POSITIVE

\* "next((a for a in attacks_list if a.attack_id == attack_id), None)": the
\* index of the first attack of that id, 0 for None.
find_attack(attacks_list, attack_id) ==
    IF \E i \in DOMAIN attacks_list : attacks_list[i].attack_id = attack_id
    THEN CHOOSE i \in DOMAIN attacks_list :
           /\ attacks_list[i].attack_id = attack_id
           /\ \A j \in 1 .. (i - 1) : attacks_list[j].attack_id # attack_id
    ELSE 0

\* The ground truth taken as False whatever the attack is.
dual_ground_truth_false(attacks_list, attack_id) == FALSE

\* "ground_truth = attack.is_malicious if attack else False"
dual_ground_truth(attacks_list, attack_id) ==
    IF find_attack(attacks_list, attack_id) # 0
    THEN attacks_list[find_attack(attacks_list, attack_id)].is_malicious
    ELSE FALSE

\* _convert_to_dual_format, one test result: the SecurityTestResult built for it
convert_test_result(attacks_list, test_result_obj) ==
    LET outcome == outcome_map(test_result_obj.outcome)
        attack_id == test_result_obj.attack_id
    IN TestResult(attack_id,
                  dual_ground_truth(attacks_list, attack_id),
                  outcome \in {TRUE_POSITIVE, FALSE_POSITIVE},
                  outcome,
                  IF find_attack(attacks_list, attack_id) # 0
                  THEN [prefix_of |-> attack_id] ELSE [prefix_of |-> "unknown"])

\* CyberSecurityEvaluator._convert_to_dual_format(result): (test_results,
\* attacks), or the ValueError "Insufficient data for dual evaluation".
convert_to_dual_format(attacks, test_results) ==
    IF test_results = <<>> \/ attacks = <<>>
    THEN [raised |-> [exception |-> "ValueError",
                      message |-> "Insufficient data for dual evaluation"]]
    ELSE [test_results |-> [i \in DOMAIN test_results |->
                              convert_test_result(attacks, test_results[i])],
          attacks |-> attacks]

\* What can fail inside the try of the dual evaluation once the result is
\* converted: DualScoringEngine.evaluate, or the generation of the reports
\* (mkdir, write_text, export_dual_reports) after dual_result is assigned.
DualFailures == {"none", "dual_scoring", "reports"}

\* The DualEvaluationResult of DualScoringEngine.evaluate
DualResult == [green_agent_metrics |-> "computed", purple_agent_assessment |-> "computed"]

\* The handler of the dual evaluation keeping the dual_result it has.
dual_result_kept(converted, failure) ==
    IF "raised" \in DOMAIN converted \/ failure = "dual_scoring" THEN None
    ELSE DualResult

\* run_eval, the try of the dual evaluation and its "except Exception as e:
\* ... dual_result = None": the dual_result the response is built from.
dual_result_after(converted, failure) ==
    IF "raised" \in DOMAIN converted \/ failure # "none" THEN None
    ELSE DualResult

\* The keys of the metrics taken from result.metrics, and those added "if
\* dual_result".
StandardMetricKeys == {"f1_score", "precision", "recall", "accuracy", "false_positive_rate", "false_negative_rate"}
DualMetricKeys == {"green_agent", "purple_agent"}

\* run_eval, "Prepare response": the metrics dictionary, each key with where
\* its value is read from.
response_metrics(dual_result) ==
    [k \in StandardMetricKeys \cup (IF dual_result # None THEN DualMetricKeys ELSE {}) |->
        IF k \in StandardMetricKeys THEN "result.metrics" ELSE "dual_result"]

\* engine.evaluate returns after the last attack; the result is converted for
\* dual scoring (use_dual_evaluation, on by default), scored and reported; a
\* failure of the dual evaluation is logged and leaves dual_result None;
\* run_eval answers "completed".
EvaluationCompleted ==
    /\ e_pc = "running"
    /\ e_next > Len(e_attacks)
    /\ e_pc' = "completed"
    /\ e_dual' = convert_to_dual_format(e_attacks, e_results)
    /\ \E failure \in DualFailures :
         LET dual_result == dual_result_after(e_dual', failure)
         IN /\ e_dual_run' = [failure |-> IF "raised" \in DOMAIN e_dual' THEN "convert" ELSE failure,
                              dual_result |-> dual_result]
            /\ e_response' = [status |-> "completed", scenario |-> e_req.scenario,
                              total_tests |-> Len(e_results),
                              metrics |-> response_metrics(dual_result)]
    /\ UNCHANGED <<e_attacks, e_next, e_results, e_last_call, e_req, e_work,
                   e_error, varsJ, varsM>>

NextEval ==
    \/ ExecuteRequest
    \/ RunEvalSetup
    \/ DetectAttack
    \/ EvaluationCompleted

SpecEval == InitEval /\ [][NextEval]_vars

\* The answer is one of those the interface calls unparseable: a status other
\* than 200, a 200 answer without a text part, or a text part that is not JSON.
Unparseable(reply) ==
    /\ reply.failure = "none"
    /\ \/ reply.status_code # HTTP_OK
       \/ reply.body \in {"no_parts", "no_text_part"}
       \/ reply.body = "text_part" /\ reply.text = "not_json"

\* The call ran into a timeout: of httpx, or of the wait in detect.
TimedOut(reply) ==
    \/ reply.failure \in {"connect_timeout", "read_timeout"}
    \/ reply.connect_s + reply.read_s > ProxyTimeout + WrapperGrace

\* The TestResults recorded for an attack.
ResultsFor(attack_id) ==
    {i \in DOMAIN e_results : e_results[i].attack_id = attack_id}

\* C2: when the target answers with a non-200 status, with no text part, or
\* with text that is not valid JSON, the TestResult recorded for the attack
\* has detected = true.
C2_UnparseableMeansDetected ==
    (e_last_call # None /\ ~e_last_call.raised /\ Unparseable(e_last_call.reply))
        => e_last_call.result.detected = TRUE

\* C3: a call that times out produces exactly one TestResult for the attack,
\* with detected = false, the evaluation goes on, and no exception leaves the
\* call.
C3_TimeoutYieldsOneResult ==
    (e_last_call # None /\ TimedOut(e_last_call.reply))
        => /\ ~e_last_call.raised
           /\ e_pc # "failed"
           /\ Cardinality(ResultsFor(e_last_call.attack_id)) = 1
           /\ \A i \in ResultsFor(e_last_call.attack_id) : ~e_results[i].detected

\* The request names no purple agent among its participants.
MissingTarget == "purple_agent" \notin e_req.participants

UnknownScenario ==
    \A i \in DOMAIN ScenarioNames : ScenarioNames[i] # lower(e_req.scenario)

\* C14: a request naming a scenario that is not registered fails with an error
\* that enumerates the available scenario names, and no call to the target is
\* made.
C14_UnknownScenarioFails ==
    (e_req # None /\ UnknownScenario) =>
        /\ e_last_call = None
        /\ e_results = <<>>
        /\ e_pc \in {"received", "accepted", "rejected", "failed"}
        /\ e_pc = "failed" =>
              /\ e_response.status = "failed"
              /\ "available" \in DOMAIN e_error
              /\ e_error.available = ScenarioNames
              /\ e_error.unknown_scenario = e_req.scenario
              /\ e_work = <<"load_scenario">>

\* C14 witness: run_eval has failed on an unregistered scenario.
C14_Witness ==
    e_req # None /\ UnknownScenario /\ ~MissingTarget /\ e_pc = "failed"

\* The call failed in the network: a timeout or a connection failure.
NetworkFailure(reply) ==
    reply.failure \in {"connect_timeout", "read_timeout", "connect_error"}

\* C15: a network timeout or connection failure on a call to the target is
\* retried, so the test is reported as failed only after more than one
\* attempt, and the failure of the test never fails the evaluation.
C15_NetworkFailureRetried ==
    (e_last_call # None /\ NetworkFailure(e_last_call.reply)) =>
        /\ e_last_call.posts >= 2
        /\ e_pc # "failed"

DualEvaluationFailed == e_dual_run # None /\ e_dual_run.failure # "none"

\* C36: a failure inside dual scoring or report generation never fails the
\* evaluation: the response has status completed with the standard metrics
\* and carries no green_agent / purple_agent metrics.
C36_DualFailureKeepsStandardResponse ==
    DualEvaluationFailed =>
        /\ e_pc = "completed"
        /\ e_response.status = "completed"
        /\ StandardMetricKeys \subseteq DOMAIN e_response.metrics
        /\ DOMAIN e_response.metrics \cap DualMetricKeys = {}

\* C36 witness: the reports failed after the dual scoring had given a result.
C36_Witness ==
    /\ e_dual_run # None
    /\ e_dual_run.failure = "reports"
    /\ e_response.status = "completed"

\* ======================================== Part L: LLMClient and SimpleCache
\* SimpleCache(ttl_seconds): the time to live of an entry, in seconds.
CacheTtl == 2

\* The latest time the clock reaches, and the most generate calls of a client.
MaxClock == 3
MaxGenerateCalls == 3

\* Strings are sequences of tokens, so that an f-string is a concatenation.
\* The prompts, the model and the temperature of the calls.
Prompts == {<<"p">>, <<"q">>}
DefaultModel == <<"gpt-4o-mini">>
DefaultTemperature == <<"0.7">>
NoSystemPrompt == <<>>

\* SimpleCache._make_key: f"{model}:{temperature}:{prompt}"; its sha256
\* digest is taken to be different for different strings.
make_key(prompt, model, temperature) ==
    model \o <<":">> \o temperature \o <<":">> \o prompt

\* generate: cache_key = f"{system_prompt or ''}:{prompt}"
cache_key(system_prompt, prompt) == system_prompt \o <<":">> \o prompt

\* The cache without the entry of a key.
Without(c, key) == [k \in DOMAIN c \ {key} |-> c[k]]

\* SimpleCache.get returning an entry however old it is.
SimpleCache_get_any_age(c, key, t) ==
    IF key \in DOMAIN c THEN [value |-> c[key].value, cache |-> c]
    ELSE [value |-> None, cache |-> c]

\* SimpleCache.get: the value returned and the cache it leaves.
SimpleCache_get(c, key, t) ==
    IF key \in DOMAIN c
    THEN IF t - c[key].timestamp < CacheTtl
         THEN [value |-> c[key].value, cache |-> c]
         ELSE [value |-> None, cache |-> Without(c, key)]
    ELSE [value |-> None, cache |-> c]

\* SimpleCache.set
SimpleCache_set(c, key, value, t) ==
    [k \in DOMAIN c \cup {key} |->
        IF k = key THEN [value |-> value, timestamp |-> t] ELSE c[k]]

\* What the API answers with: content that is valid JSON, content that is
\* not, or an error that the retry wrapper raises as an LLMError.
ApiAnswers == {"valid_json", "plain_text", "error"}
ResponseFormats == {"text", "json", "json_object"}

\* LLMResponse
LLMResponse(content, cached) == [content |-> content, cached |-> cached]

\* time passes
Tick ==
    /\ now < MaxClock
    /\ now' = now + 1
    /\ UNCHANGED <<cache, total_requests, cache_hits, l_last>>
    /\ UNCHANGED <<m_input, m_result, m_call, m_return, varsJ, varsE, varsR>>

\* LLMClient.generate with the cache enabled: the lookup, on a hit the cached
\* response (marked cached, which marks the stored object too); otherwise the
\* request, the JSON validation, the counters and the store.
Generate ==
    /\ total_requests + cache_hits < MaxGenerateCalls
    /\ \E prompt \in Prompts, response_format \in ResponseFormats,
          use_cache \in BOOLEAN, answer \in ApiAnswers :
         LET key == make_key(cache_key(NoSystemPrompt, prompt), DefaultModel,
                             DefaultTemperature)
             looked == IF use_cache THEN SimpleCache_get(cache, key, now)
                       ELSE [value |-> None, cache |-> cache]
             call == [op |-> "generate", prompt |-> prompt, key |-> key,
                      response_format |-> response_format,
                      use_cache |-> use_cache]
         IN IF looked.value # None
            THEN LET cached_response == LLMResponse(looked.value.content, TRUE)
                 IN /\ cache_hits' = cache_hits + 1
                    /\ cache' = [looked.cache EXCEPT ![key].value = cached_response]
                    /\ l_last' = [call |-> call, returned |-> cached_response,
                                  stored_at |-> cache[key].timestamp, at |-> now]
                    /\ UNCHANGED total_requests
            ELSE IF answer = "error"
            THEN /\ cache' = looked.cache
                 /\ l_last' = [call |-> call, raised |-> "LLMError"]
                 /\ UNCHANGED <<total_requests, cache_hits>>
            ELSE IF response_format \in {"json", "json_object"} /\ answer # "valid_json"
            THEN /\ cache' = looked.cache
                 /\ l_last' = [call |-> call, raised |-> "LLMValidationError"]
                 /\ UNCHANGED <<total_requests, cache_hits>>
            ELSE LET llm_response == LLMResponse(answer, FALSE)
                 IN /\ total_requests' = total_requests + 1
                    /\ cache' = IF use_cache
                                THEN SimpleCache_set(looked.cache, key, llm_response, now)
                                ELSE looked.cache
                    /\ l_last' = [call |-> call, returned |-> llm_response]
                    /\ UNCHANGED cache_hits
    /\ UNCHANGED now
    /\ UNCHANGED <<m_input, m_result, m_call, m_return, varsJ, varsE, varsR>>

\* SimpleCache.get called on the client's cache
CacheGet ==
    /\ \E prompt \in Prompts :
         LET key == make_key(cache_key(NoSystemPrompt, prompt), DefaultModel,
                             DefaultTemperature)
             looked == SimpleCache_get(cache, key, now)
         IN /\ cache' = looked.cache
            /\ l_last' = [call |-> [op |-> "get", prompt |-> prompt, key |-> key],
                          value |-> looked.value,
                          stored_at |-> IF key \in DOMAIN cache
                                        THEN cache[key].timestamp ELSE -1,
                          at |-> now]
    /\ UNCHANGED <<now, total_requests, cache_hits>>
    /\ UNCHANGED <<m_input, m_result, m_call, m_return, varsJ, varsE, varsR>>

\* round(x, 2) of a non-negative fraction n / d, in hundredths.
RoundHundredths(n, d) == (200 * n + d) \div (2 * d)

\* LLMClient.get_stats
get_stats ==
    [total_requests |-> total_requests,
     cache_hits |-> cache_hits,
     cache_hit_rate |-> Frac(RoundHundredths(cache_hits, Max(total_requests, 1)), 100)]

GetStats ==
    /\ l_last' = [call |-> [op |-> "get_stats"], returned |-> get_stats]
    /\ UNCHANGED <<cache, now, total_requests, cache_hits>>
    /\ UNCHANGED <<m_input, m_result, m_call, m_return, varsJ, varsE, varsR>>

InitLLM == IdleJ /\ IdleE /\ IdleM

NextLLM ==
    \/ Tick
    \/ Generate
    \/ CacheGet
    \/ GetStats

\* A client with its cache enabled, used by any sequence of calls over time.
SpecLLM == InitLLM /\ [][NextLLM]_vars

\* The latest call was of the operation.
LastOp(op) == l_last # None /\ l_last.call.op = op

\* C37: whenever generate is called with response_format json or json_object,
\* the content of the response it returns is valid JSON, also when the
\* response is served from the cache.
C37_JsonFormatReturnsJson ==
    (LastOp("generate") /\ l_last.call.response_format \in {"json", "json_object"}
       /\ "returned" \in DOMAIN l_last)
        => l_last.returned.content = "valid_json"

\* The latest call was a SimpleCache.get that found an entry for its key.
LookupFound == LastOp("get") /\ l_last.stored_at >= 0

\* Seconds between the store of the entry found and the lookup.
EntryAge == l_last.at - l_last.stored_at

\* C38: a cache lookup never returns an entry stored ttl or more seconds
\* earlier, and an expired entry is removed by the lookup that finds it; a
\* lookup within the TTL of the same (prompt, model, temperature) returns the
\* stored value.
C38_CacheHonoursTtl ==
    /\ (LastOp("generate") /\ "stored_at" \in DOMAIN l_last) => EntryAge < CacheTtl
    /\ (LookupFound /\ EntryAge >= CacheTtl) =>
          /\ l_last.value = None
          /\ l_last.call.key \notin DOMAIN cache
    /\ (LookupFound /\ EntryAge < CacheTtl) =>
          /\ l_last.value # None
          /\ l_last.call.key \in DOMAIN cache
          /\ l_last.value = cache[l_last.call.key].value
    /\ (LastOp("get") /\ ~LookupFound) => l_last.value = None

\* C38 witness: a lookup has found an entry that had expired.
C38_Witness == LookupFound /\ EntryAge >= CacheTtl

\* C40: after any sequence of generate calls, the cache_hit_rate reported by
\* get_stats lies between 0 and 1.
C40_HitRateWithinUnit ==
    LastOp("get_stats") =>
        /\ FracGe(l_last.returned.cache_hit_rate, Frac(0, 1))
        /\ FracGe(Frac(1, 1), l_last.returned.cache_hit_rate)

\* ================================================= Part R: PromptRenderer
\* A template is a sequence of tokens: text, a placeholder {{a}} or {{.}}, the
\* opening {{#a}} or the closing {{/a}} of a block.
MaxTemplateTokens == 4

\* The longest template the model follows through the loop of _render_blocks.
MaxRenderedTokens == 8

BlockKeys == {"a"}
Open(key) == <<"{{#", key, "}}">>
Close(key) == <<"{{/", key, "}}">>
Placeholder(key) == <<"{{", key, "}}">>
Text == <<"x">>
TemplateTokens == {Text, Placeholder("."), Placeholder("a"), Open("a"), Close("a")}
Templates == UNION {[1 .. n -> TemplateTokens] : n \in 0 .. MaxTemplateTokens}

\* The values of the context: None, a string (one of them with block syntax
\* in it), a list of strings.
NoValue == [kind |-> "none"]
StrValue(tokens) == [kind |-> "str", s |-> tokens]
ListValue(items) == [kind |-> "list", items |-> items]
ContextValues == {NoValue, StrValue(<<>>), StrValue(<<Text>>), StrValue(<<Text, Open("a"), Placeholder("a"), Close("a")>>), ListValue(<<>>), ListValue(<<<<Text>>, <<Text>>>>)}
Contexts == [BlockKeys -> ContextValues]

\* context.get(key)
context_get(context, key) == IF key \in DOMAIN context THEN context[key] ELSE NoValue

\* _render_placeholders, replace_placeholder: what a {{key}} is replaced with
replace_placeholder(key, context) ==
    LET value == context_get(context, key)
    IN IF value.kind = "str" THEN value.s ELSE <<>>

\* The token is a {{key}} or {{.}} placeholder.
IsPlaceholder(token) == Len(token) = 3 /\ token[1] = "{{"

RECURSIVE render_placeholders(_, _)
\* PromptRenderer._render_placeholders: re.sub over the placeholders
render_placeholders(template, context) ==
    IF template = <<>> THEN <<>>
    ELSE (IF IsPlaceholder(Head(template))
          THEN replace_placeholder(Head(template)[2], context)
          ELSE <<Head(template)>>)
         \o render_placeholders(Tail(template), context)

\* PromptRenderer._render_list_item for an item that is a string
render_list_item(template, item, context) ==
    render_placeholders(template, [k \in DOMAIN context \cup {"."} |->
                                      IF k = "." THEN StrValue(item) ELSE context[k]])

RECURSIVE JoinItems(_, _, _)
\* "".join(_render_list_item(block_template, item, context) for item in value)
JoinItems(block_template, items, context) ==
    IF items = <<>> THEN <<>>
    ELSE render_list_item(block_template, Head(items), context)
         \o JoinItems(block_template, Tail(items), context)

\* _render_blocks, replace_block
replace_block(key, block_template, context) ==
    LET value == context_get(context, key)
    IN IF value.kind = "list" THEN JoinItems(block_template, value.items, context)
       ELSE IF value.kind = "str" /\ value.s # <<>>
       THEN render_placeholders(block_template, context)
       ELSE <<>>

\* The token opens a block that a later token closes.
OpensBlock(template) ==
    /\ Len(Head(template)) = 3 /\ Head(template)[1] = "{{#"
    /\ \E j \in 2 .. Len(template) : template[j] = Close(Head(template)[2])

RECURSIVE sub_blocks(_, _)
\* re.sub(block_pattern, replace_block, template): every leftmost, shortest
\* {{#key}} ... {{/key}} is replaced, the scan going on after its closing.
sub_blocks(template, context) ==
    IF template = <<>> THEN <<>>
    ELSE IF OpensBlock(template)
    THEN LET key == Head(template)[2]
             j == CHOOSE j \in 2 .. Len(template) :
                    /\ template[j] = Close(key)
                    /\ \A i \in 2 .. (j - 1) : template[i] # Close(key)
         IN replace_block(key, SubSeq(template, 2, j - 1), context)
            \o sub_blocks(SubSeq(template, j + 1, Len(template)), context)
    ELSE <<Head(template)>> \o sub_blocks(Tail(template), context)

InitRender ==
    /\ IdleJ /\ IdleE
    /\ m_input = None /\ m_result = None /\ m_call = None /\ m_return = None
    /\ IdleL
    /\ r_template \in Templates
    /\ r_context \in Contexts
    /\ r_prev = None
    /\ r_pc = "blocks"

\* _render_blocks, one iteration of "while prev_template != template"
RenderBlocksPass ==
    /\ r_pc = "blocks"
    /\ r_prev # [template |-> r_template]
    /\ Len(r_template) <= MaxRenderedTokens
    /\ r_prev' = [template |-> r_template]
    /\ r_template' = sub_blocks(r_template, r_context)
    /\ UNCHANGED <<r_context, r_pc>>
    /\ UNCHANGED <<m_input, m_result, m_call, m_return, varsL, varsJ, varsE>>

\* The loop is left when a pass has changed nothing; render goes on with
\* _render_placeholders and returns.
RenderPlaceholders ==
    /\ r_pc = "blocks"
    /\ r_prev = [template |-> r_template]
    /\ r_template' = render_placeholders(r_template, r_context)
    /\ r_pc' = "done"
    /\ UNCHANGED <<r_context, r_prev>>
    /\ UNCHANGED <<m_input, m_result, m_call, m_return, varsL, varsJ, varsE>>

\* The template has outgrown the lengths the model follows; the loop is
\* still running.
RenderOutgrown ==
    /\ r_pc = "blocks"
    /\ r_prev # [template |-> r_template]
    /\ Len(r_template) > MaxRenderedTokens
    /\ r_pc' = "outgrown"
    /\ UNCHANGED <<r_template, r_context, r_prev>>
    /\ UNCHANGED <<m_input, m_result, m_call, m_return, varsL, varsJ, varsE>>

NextRender ==
    \/ RenderBlocksPass
    \/ RenderPlaceholders
    \/ RenderOutgrown

SpecRender == InitRender /\ [][NextRender]_vars

\* render is a sequential call: a step that can be taken is taken.
SpecRenderLive == SpecRender /\ WF_vars(NextRender)

\* C39: PromptRenderer.render terminates for every template and every
\* context, including contexts whose values contain block syntax.
C39_RenderTerminates == <>(r_pc = "done")

====
